---- MODULE Spec2Model ----
(***************************************************************************)
(* A state-machine model of Animated.js: the dependency graph of animated  *)
(* nodes (addChild/removeChild, attach/detach, the two-phase flush), the   *)
(* Value node, the three drivers (Timing, Decay, Spring), tracking, and    *)
(* the combinators (sequence, parallel, delay, stagger).                   *)
(*                                                                         *)
(* JavaScript runs each handler to completion on one thread.  An action of *)
(* the model is one entry from the host (an API call, a frame callback, a  *)
(* timer callback) run to completion by Run: the call stack is a sequence  *)
(* of pending calls, each function below executes its statements up to its *)
(* next call and pushes that call followed by the rest of its body.        *)
(*                                                                         *)
(* Numbers: a JavaScript number is modelled in fixed point, an integer     *)
(* count of 1/Unit; times are integer milliseconds.  NaN and undefined are *)
(* two reserved integers.                                                  *)
(***************************************************************************)
EXTENDS Integers, Sequences, FiniteSets, TLC

VARIABLES
  now,      \* Date.now(), in milliseconds
  nodes,    \* the Animated nodes: node id -> fields
  drivers,  \* every Animation instance constructed so far, in order
  comps,    \* the CompositeAnimation objects: id -> closure variables
  uid,      \* _uniqueId
  entry,    \* the call from the host that the last handler ran (observation only)
  ev,       \* what the last handler did, in order (observation only)
  err,      \* the last handler ended by throwing (observation only)
  calls,    \* per user callback, the finished flags it received so far
  mapper    \* the closure variables of the handler that event() returned

vars == <<now, nodes, drivers, comps, uid, entry, ev, err, calls, mapper>>

\* stack is the call stack of the running handler: empty between handlers
State ==
  [now |-> now, nodes |-> nodes, drivers |-> drivers, comps |-> comps,
   uid |-> uid, entry |-> entry, ev |-> ev, err |-> err, calls |-> calls,
   mapper |-> mapper, stack |-> <<>>]

Assign(s) ==
  /\ now' = s.now
  /\ nodes' = s.nodes
  /\ drivers' = s.drivers
  /\ comps' = s.comps
  /\ uid' = s.uid
  /\ entry' = s.entry
  /\ ev' = s.ev
  /\ err' = s.err
  /\ calls' = s.calls
  /\ mapper' = s.mapper

\* The state a handler starts from: the observation of the previous one cleared.
Enter == [State EXCEPT !.ev = <<>>, !.err = FALSE]

-----------------------------------------------------------------------------
(* Bounds of the model *)

MaxCalls == 3      \* finished flags remembered per user callback; calls counted
MaxChildren == 3   \* length of a child list that a direct addChild may extend
MaxDrivers == 4    \* Animation instances constructed in one behaviour
MaxListeners == 2  \* listeners registered in one behaviour
MaxNow == 2000     \* the clock stops here
MaxEvents == 4     \* events handed to the handler of event() in one behaviour

Bump(n) == IF n < MaxCalls THEN n + 1 ELSE n

-----------------------------------------------------------------------------
(* Numbers *)

Unit == 1000
NaN == -999999
Undef == -888888

\* a + b, a * b / Unit and a === b of JavaScript numbers
Add(a, b) == IF a = NaN \/ b = NaN THEN NaN ELSE a + b
StrictEq(a, b) == a # NaN /\ b # NaN /\ a = b
\* division of the fixed-point representation, rounding toward zero
Quot(a, b) == IF a >= 0 THEN a \div b ELSE -((-a) \div b)
Abs(a) == IF a >= 0 THEN a ELSE -a

withDefault(value, defaultValue) == IF value = Undef THEN defaultValue ELSE value

-----------------------------------------------------------------------------
(* Observation *)

Ev(t, n, x, f) == [t |-> t, n |-> n, x |-> x, f |-> f]
Emit(s, e) == [s EXCEPT !.ev = Append(@, e)]
\* an uncaught exception unwinds the whole stack of the handler
Throw(s) == [s EXCEPT !.err = TRUE, !.stack = <<>>]
CountEv(log, t) == Cardinality({i \in DOMAIN log : log[i].t = t})

-----------------------------------------------------------------------------
(* Callbacks passed to start(): nothing, a callback of the user, or the     *)
(* closure a sequence or a parallel hands to its elements.                  *)

\* i: the position, in the list of the combinator, of the element the closure
\* was handed to (observation only)
NoCb == [k |-> "none", c |-> 0, i |-> 0]
UserCb(id) == [k |-> "user", c |-> id, i |-> 0]
\* a callback of the user that, told finished = false, starts the composite
\* next if nothing has started it yet
RestartCb(id, next) == [k |-> "user", c |-> id, i |-> next]
SeqCb(c, i) == [k |-> "seq", c |-> c, i |-> i]
ParCb(c, i) == [k |-> "par", c |-> c, i |-> i]

-----------------------------------------------------------------------------
(* Pending calls *)

Call(op, a, b, c) == [op |-> op, a |-> a, b |-> b, c |-> c, cb |-> NoCb, f |-> FALSE]
CallCb(op, a, b, c, cb, f) == [op |-> op, a |-> a, b |-> b, c |-> c, cb |-> cb, f |-> f]
Push(s, calls_) == [s EXCEPT !.stack = calls_ \o @]

-----------------------------------------------------------------------------
(* Nodes *)

Node(kind, deps) ==
  [kind |-> kind, children |-> <<>>, deps |-> deps,
   active |-> FALSE, owner |-> 0, comp |-> 0, cb |-> NoCb,
   value |-> 0, offset |-> 0, animation |-> 0, tracking |-> 0,
   listeners |-> <<>>, made |-> TRUE, balance |-> 0, unmounts |-> 0, stops |-> 0]

\* made: the constructor has run.  balance: attach() calls minus detach() calls
\* (observation only).  unmounts: what the callback given to a Props node does
\* besides committing, the Props node of the component that its re-render
\* unmounts (0: none); stops: the Value on which that callback calls
\* stopAnimation() (0: none).  A node whose constructor has not run yet:
Unmade(kind, deps) == [Node(kind, deps) EXCEPT !.made = FALSE]

ValueNode(v) == [Node("Value", <<>>) EXCEPT !.value = v]

\* the classes that extend AnimatedWithChildren, and those that define update()
HasChildren(kind) == kind \in {"Value", "Interpolation", "Transform", "Style"}
HasUpdate(kind) == kind \in {"Props", "Tracking"}

IndexOf(seq, x) ==
  IF \E i \in DOMAIN seq : seq[i] = x
  THEN CHOOSE i \in DOMAIN seq : seq[i] = x /\ \A j \in 1..(i - 1) : seq[j] # x
  ELSE 0

Splice(seq, i) == SubSeq(seq, 1, i - 1) \o SubSeq(seq, i + 1, Len(seq))

\* a variant that keeps duplicates
SetAdd_Append(seq, x) == Append(seq, x)

\* Set.prototype.add, the set kept in insertion order
SetAdd(seq, x) == IF IndexOf(seq, x) = 0 THEN Append(seq, x) ELSE seq

getChildren(s, n) == IF HasChildren(s.nodes[n].kind) THEN s.nodes[n].children ELSE <<>>

-----------------------------------------------------------------------------
(* Animation instances *)

\* a config object; Undef marks a key that is absent.  toNode is the node given
\* as toValue (0: toValue is a number); easing is the identity
Config ==
  [toValue |-> 0, toNode |-> 0, duration |-> Undef, delay |-> Undef,
   velocity |-> Undef, deceleration |-> Undef, tension |-> Undef,
   friction |-> Undef, overshootClamping |-> FALSE,
   restDisplacementThreshold |-> Undef, restSpeedThreshold |-> Undef]

\* the fields of the three Animation classes, before the constructor has run;
\* stopped: stop() was called, ends: the flags onEnd was called with, from and
\* previous: the fromValue and previousAnimation start() received (observation
\* only)
Animation ==
  [kind |-> "none", val |-> 0, cb |-> NoCb, onEnd |-> FALSE,
   frame |-> FALSE, timeout |-> FALSE, due |-> 0, active |-> FALSE,
   toValue |-> 0, duration |-> 0, delay |-> 0, deceleration |-> 0, velocity |-> 0,
   startTime |-> 0, fromValue |-> 0, lastValue |-> 0,
   overshootClamping |-> FALSE, restDisplacementThreshold |-> 0,
   restSpeedThreshold |-> 0, tension |-> 0, friction |-> 0,
   startPosition |-> 0, lastPosition |-> 0, tempPosition |-> 0,
   lastVelocity |-> 0, tempVelocity |-> 0, lastTime |-> 0,
   stopped |-> FALSE, ends |-> <<>>, from |-> 0, previous |-> 0]

\* x || d for a number x
OrElse(x, d) == IF x \in {Undef, NaN, 0} THEN d ELSE x

TimingAnimation(config) ==
  [Animation EXCEPT
     !.kind = "timing",
     !.toValue = config.toValue,
     !.duration = IF config.duration # Undef THEN config.duration ELSE 500,
     !.delay = OrElse(config.delay, 0)]

\* deceleration is kept in 1/1000 (0.998 is 998); velocity in 1/Unit per ms
DecayAnimation(config) ==
  [Animation EXCEPT
     !.kind = "decay",
     !.deceleration = OrElse(config.deceleration, 998),
     !.velocity = config.velocity]

\* both in 1/100
tensionFromOrigamiValue(oValue) == (oValue - 30) * 362 + 19400
frictionFromOrigamiValue(oValue) == (oValue - 8) * 300 + 2500

\* the tension/friction branch of the constructor; velocity in 1/Unit per second
SpringAnimation(config) ==
  [Animation EXCEPT
     !.kind = "spring",
     !.overshootClamping = config.overshootClamping,
     !.restDisplacementThreshold =
        withDefault(config.restDisplacementThreshold, Unit \div 1000),
     !.restSpeedThreshold = withDefault(config.restSpeedThreshold, Unit \div 1000),
     !.lastVelocity = withDefault(config.velocity, 0),
     !.tempVelocity = withDefault(config.velocity, 0),
     !.toValue = config.toValue,
     !.tension = tensionFromOrigamiValue(withDefault(config.tension, 40)),
     !.friction = frictionFromOrigamiValue(withDefault(config.friction, 7))]

-----------------------------------------------------------------------------
(* CompositeAnimation objects: what timing(), decay(), spring(), sequence()   *)
(* and parallel() return, with the variables their closures share.  started  *)
(* and stopped tell that start() and stop() have been called, startedAt when *)
(* start() was last called, autostops                                        *)
(* counts the stop() calls by the closure of parallel, reports lists what    *)
(* the closure handed to the elements received: from which element, and the  *)
(* flag (observation only).                                                  *)

Composite(type) ==
  [type |-> type, value |-> 0, config |-> Config, tracking |-> 0,
   animations |-> <<>>, current |-> 0, doneCount |-> 0, hasBeenStopped |-> FALSE,
   callback |-> NoCb, started |-> FALSE, startedAt |-> 0, stopped |-> FALSE,
   autostops |-> 0, reports |-> <<>>]

timing(value, config) == [Composite("timing") EXCEPT !.value = value, !.config = config]
decay(value, config) == [Composite("decay") EXCEPT !.value = value, !.config = config]

\* tracking is the id the AnimatedTracking node gets if start() constructs one
spring(value, config, tracking) ==
  [Composite("spring") EXCEPT !.value = value, !.config = config, !.tracking = tracking]

sequence(animations) == [Composite("sequence") EXCEPT !.animations = animations]
parallel(animations) == [Composite("parallel") EXCEPT !.animations = animations]

\* value is the new AnimatedValue(0) that delay() constructs
delay(value, time) ==
  timing(value, [Config EXCEPT !.toValue = 0, !.delay = time, !.duration = 0])

-----------------------------------------------------------------------------
(* event(argMapping, config): the variables of the closure it returns.  The  *)
(* mapping is [{nativeEvent: {x: value}}]; listener and ref tell whether     *)
(* config has them, updatePeriod is 0 when config has none.  An incoming     *)
(* event is [id, nativeEvent, x]: nativeEvent is Undef when the event has no *)
(* such field and x is the number at nativeEvent.x, or Undef for anything    *)
(* that is no number.  timers are the timers of the host that are set, each  *)
(* with the time it is due; count numbers the events and delivered counts the  *)
(* calls of the listener (observation only).                                 *)

event(value, listener, updatePeriod, ref) ==
  [value |-> value, listener |-> listener, updatePeriod |-> updatePeriod, ref |-> ref,
   lastUpdate |-> 0, timer |-> 0, isEnabled |-> TRUE,
   lastArgs |-> [id |-> 0, nativeEvent |-> Undef, x |-> Undef],
   timers |-> {}, count |-> 0, delivered |-> 0]

-----------------------------------------------------------------------------
(* AnimatedWithChildren and the attach/detach of each class *)

\* a variant that also takes a list of one entry for empty
ListEmpty_UpToOne(children) == Len(children) <= 1

\* addChild calls attach() when the list is empty; removeChild calls detach()
\* when the removal has emptied it
ListEmpty(children) == Len(children) = 0

\* this._children.push(child)
addChild_push(s, n, child) ==
  Emit([s EXCEPT !.nodes[n].children = Append(@, child)],
       Ev("push", n, Len(s.nodes[n].children) + 1, FALSE))

\* Animated.addChild is empty; AnimatedWithChildren.addChild attaches first
addChild(s, n, child) ==
  IF ~HasChildren(s.nodes[n].kind) THEN s
  ELSE IF ListEmpty(s.nodes[n].children)
  THEN Push(s, <<Call("attach", n, 0, 0), Call("addChild_push", n, child, 0)>>)
  ELSE addChild_push(s, n, child)

\* a variant that never calls detach()
removeChild_Shallow(s, n, child) ==
  LET index == IndexOf(s.nodes[n].children, child)
  IN  IF ~HasChildren(s.nodes[n].kind) THEN s
      ELSE IF index = 0 THEN Emit(s, Ev("warn", n, child, FALSE))
      ELSE Emit([s EXCEPT !.nodes[n].children = Splice(@, index)],
                Ev("splice", n, Len(s.nodes[n].children) - 1, FALSE))

removeChild(s, n, child) ==
  LET index == IndexOf(s.nodes[n].children, child)
      s1 == Emit([s EXCEPT !.nodes[n].children = Splice(@, index)],
                 Ev("splice", n, Len(s.nodes[n].children) - 1, FALSE))
  IN  IF ~HasChildren(s.nodes[n].kind) THEN s
      ELSE IF index = 0 THEN Emit(s, Ev("warn", n, child, FALSE))
      ELSE IF ListEmpty(s1.nodes[n].children) THEN Push(s1, <<Call("detach", n, 0, 0)>>)
      ELSE s1

\* the calls op(dep, n), one for each entry of deps, in order
ForEachDep(op, deps, n) == [i \in 1..Len(deps) |-> Call(op, deps[i], n, 0)]

\* attach() of each class.  Value inherits the empty Animated.attach.
attach(s, n) ==
  LET s0 == Emit([s EXCEPT !.nodes[n].balance =
                              IF HasChildren(s.nodes[n].kind) THEN @ + 1 ELSE @], Ev("attach", n, 0, FALSE))
      kind == s.nodes[n].kind
      deps == s.nodes[n].deps
  IN  CASE kind \in {"Interpolation", "Transform", "Style", "Props"} ->
             Push(s0, ForEachDep("addChild", deps, n))
        [] kind = "Tracking" ->
             Push([s0 EXCEPT !.nodes[n].active = TRUE], ForEachDep("addChild", deps, n))
        [] OTHER -> s0

\* a variant that leaves this._active as it is
detach_inactive_Kept(s, n) == s

\* this._active = false, the last statement of AnimatedTracking.detach
detach_inactive(s, n) == [s EXCEPT !.nodes[n].active = FALSE]

\* detach() of each class.  Value.detach is stopAnimation().  An Interpolation
\* also hands its _parentListener to removeListener of its parent: it never
\* has one, and the call removes nothing.
detach(s, n) ==
  LET s0 == Emit([s EXCEPT !.nodes[n].balance =
                              IF HasChildren(s.nodes[n].kind) THEN @ - 1 ELSE @], Ev("detach", n, 0, FALSE))
      kind == s.nodes[n].kind
      deps == s.nodes[n].deps
  IN  CASE kind = "Value" -> Push(s0, <<Call("stopAnimation", n, 0, 0)>>)
        [] kind \in {"Interpolation", "Transform", "Style", "Props"} ->
             Push(s0, ForEachDep("removeChild", deps, n))
        [] kind = "Tracking" ->
             Push(s0, ForEachDep("removeChild", deps, n)
                        \o <<Call("detach_inactive", n, 0, 0)>>)
        [] OTHER -> s0

-----------------------------------------------------------------------------
(* The two-phase update *)

RECURSIVE findAnimatedStyles(_, _, _), findInChildren(_, _, _, _)
RECURSIVE getValue(_, _)

\* the Set animatedStyles, in insertion order
findAnimatedStyles(s, acc, n) ==
  IF HasUpdate(s.nodes[n].kind) THEN SetAdd(acc, n)
  ELSE findInChildren(s, acc, getChildren(s, n), 1)

\* theNode.getChildren().forEach(findAnimatedStyles)
findInChildren(s, acc, children, i) ==
  IF i > Len(children) THEN acc
  ELSE findInChildren(s, findAnimatedStyles(s, acc, children[i]), children, i + 1)

\* the nodes update() is called on, in order
Collected(s, node) == findAnimatedStyles(s, <<>>, node)

_flush(s, node) ==
  LET animatedStyles == Collected(s, node)
      fid == CountEv(s.ev, "flush") + 1
  IN  Push(Emit(s, Ev("flush", node, fid, FALSE)),
           [i \in 1..Len(animatedStyles) |-> Call("update", animatedStyles[i], fid, 0)])

\* getValue() of Value and of Tracking; an Interpolation applies the mapping
\* x -> x + offset (inputRange [0, 1], outputRange [c, c + 1], as Vec2.offset builds)
getValue(s, n) ==
  CASE s.nodes[n].kind = "Value" -> Add(s.nodes[n].value, s.nodes[n].offset)
    [] s.nodes[n].kind = "Interpolation" ->
         Add(getValue(s, s.nodes[n].deps[1]), s.nodes[n].offset)
    [] s.nodes[n].kind = "Tracking" -> getValue(s, s.nodes[n].deps[1])
    [] OTHER -> 0

\* the node n is in the child list of each of its dependencies
Registered(s, n) ==
  \A i \in DOMAIN s.nodes[n].deps : IndexOf(getChildren(s, s.nodes[n].deps[i]), n) # 0

\* update() of Props (the commit callback of the host, which may unmount a
\* mounted component: componentWillUnmount detaches its Props node, and may
\* call stopAnimation() on a Value) and of
\* Tracking.  The flag of the event: n was not registered when it was called.
update(s, n, fid) ==
  LET s0 == Emit(s, Ev("update", n, fid, ~Registered(s, n)))
      nd == s.nodes[n]
      config == [s.comps[nd.comp].config EXCEPT !.toValue = getValue(s, nd.deps[1])]
  IN  IF nd.kind # "Tracking"
      THEN Push(s0, (IF nd.unmounts # 0 /\ s.nodes[nd.unmounts].made /\ Registered(s, nd.unmounts)
                     THEN <<Call("detach", nd.unmounts, 0, 0)>> ELSE <<>>)
                    \o (IF nd.stops # 0 THEN <<Call("stopAnimation", nd.stops, 0, 0)>> ELSE <<>>))
      ELSE IF ~nd.active THEN Emit(s0, Ev("warn", n, 0, FALSE))
      ELSE Push([s0 EXCEPT !.drivers = Append(@, SpringAnimation(config))],
                <<CallCb("animate", nd.owner, Len(s.drivers) + 1, 0, nd.cb, FALSE)>>)

-----------------------------------------------------------------------------
(* AnimatedValue *)

\* a variant that compares with what getValue() returns
SameValue_Resolved(s, v, value) == StrictEq(value, getValue(s, v))

\* the test value === this._value of _updateValue
SameValue(s, v, value) == StrictEq(value, s.nodes[v].value)

\* this._animation = null, after the stop() of setValue
setValue_clear(s, v) == [s EXCEPT !.nodes[v].animation = 0]

\* a variant that leaves the driver running
setValue_Unstopped(s, v, value) == Push(s, <<Call("_updateValue", v, value, 0)>>)

setValue(s, v, value) ==
  IF s.nodes[v].animation # 0
  THEN Push(s, <<Call("Animation_stop", s.nodes[v].animation, 0, 0),
                 Call("setValue_clear", v, 0, 0),
                 Call("_updateValue", v, value, 0)>>)
  ELSE Push(s, <<Call("_updateValue", v, value, 0)>>)

\* for (var key in this._listeners) this._listeners[key]({value: this.getValue()})
callListeners(s, v) ==
  [s EXCEPT !.ev = @ \o [i \in 1..Len(s.nodes[v].listeners) |->
                           Ev("listener", s.nodes[v].listeners[i], getValue(s, v), FALSE)]]

_updateValue(s, v, value) ==
  IF SameValue(s, v, value) THEN s
  ELSE Push([s EXCEPT !.nodes[v].value = value],
            <<Call("_flush", v, 0, 0), Call("callListeners", v, 0, 0)>>)

addListener(s, v) ==
  [s EXCEPT !.uid = @ + 1, !.nodes[v].listeners = Append(@, s.uid)]

removeListener(s, v, id) ==
  [s EXCEPT !.nodes[v].listeners = SelectSeq(@, LAMBDA k : k # id)]

\* the rest of animate() after the previous animation was stopped
animate_start(s, v, animation, previousAnimation, callback) ==
  Push([s EXCEPT !.nodes[v].animation = animation,
                 !.drivers[animation].val = v,
                 !.drivers[animation].cb = callback],
       <<Call("Animation_start", animation, s.nodes[v].value, previousAnimation)>>)

animate(s, v, animation, callback) ==
  LET previousAnimation == s.nodes[v].animation
      rest == <<CallCb("animate_start", v, animation, previousAnimation, callback, FALSE)>>
  IN  IF previousAnimation # 0
      THEN Push(s, <<Call("Animation_stop", previousAnimation, 0, 0)>> \o rest)
      ELSE Push(s, rest)

stopTracking(s, v) ==
  IF s.nodes[v].tracking = 0 THEN s
  ELSE Push(s, <<Call("detach", s.nodes[v].tracking, 0, 0)>>)

\* this._animation && this._animation.stop(), after stopTracking() has returned
stopAnimation_stop(s, v) ==
  IF s.nodes[v].animation = 0 THEN s
  ELSE Push(s, <<Call("Animation_stop", s.nodes[v].animation, 0, 0)>>)

stopAnimation(s, v) ==
  Push(s, <<Call("stopTracking", v, 0, 0), Call("stopAnimation_stop", v, 0, 0)>>)

\* this._tracking = tracking
track_set(s, v, tracking) == [s EXCEPT !.nodes[v].tracking = tracking]

track(s, v, tracking) ==
  Push(s, <<Call("stopTracking", v, 0, 0), Call("track_set", v, tracking, 0)>>)

-----------------------------------------------------------------------------
(* The Animation classes *)

\* a variant that leaves this._onEnd and the slot of the Value as they are
onEnd_Kept(s, d, finished) ==
  Push(Emit([s EXCEPT !.drivers[d].ends = IF Len(@) < MaxCalls THEN Append(@, finished) ELSE @],
            Ev("end", d, 0, finished)),
       <<CallCb("Invoke", 0, 0, 0, s.drivers[d].cb, finished)>>)

\* var onEnd = this._onEnd; this._onEnd = null; onEnd && onEnd(finished), where
\* onEnd is the closure of animate(): this._animation = null; callback(finished)
onEnd(s, d, finished) ==
  LET a == s.drivers[d]
  IN  IF ~a.onEnd THEN s
      ELSE Push(Emit([s EXCEPT !.drivers[d].onEnd = FALSE,
                               !.drivers[d].ends = Append(@, finished),
                               !.nodes[a.val].animation = 0],
                     Ev("end", d, 0, finished)),
                <<CallCb("Invoke", 0, 0, 0, a.cb, finished)>>)

\* the closure start of TimingAnimation.start
TimingAnimation_begin(s, d) ==
  [s EXCEPT !.drivers[d].startTime = s.now,
            !.drivers[d].timeout = FALSE,
            !.drivers[d].frame = TRUE]

\* a variant that takes nothing over
setInternalState_Fresh(a, p) == a

\* the assignments from previousAnimation.getInternalState() in
\* SpringAnimation.start
setInternalState(a, p) ==
  [a EXCEPT !.lastPosition = p.lastPosition,
            !.tempPosition = p.tempPosition,
            !.lastVelocity = p.lastVelocity,
            !.tempVelocity = p.tempVelocity,
            !.lastTime = p.lastTime]

\* start() of the three classes
Animation_start(s0, d, fromValue, previousAnimation) ==
  LET s == [s0 EXCEPT !.drivers[d].from = fromValue,
                      !.drivers[d].previous = previousAnimation]
      a == s.drivers[d]
      p == s.drivers[previousAnimation]
      fresh == [a EXCEPT !.active = TRUE, !.onEnd = TRUE,
                         !.startPosition = fromValue, !.lastPosition = fromValue,
                         !.tempPosition = fromValue, !.lastTime = s.now]
  IN  CASE a.kind = "timing" ->
             LET s1 == [s EXCEPT !.drivers[d].fromValue = fromValue,
                                 !.drivers[d].onEnd = TRUE]
             IN  IF a.delay # 0
                 THEN [s1 EXCEPT !.drivers[d].timeout = TRUE,
                                 !.drivers[d].due = s.now + a.delay]
                 ELSE TimingAnimation_begin(s1, d)
        [] a.kind = "decay" ->
             [s EXCEPT !.drivers[d].lastValue = fromValue,
                       !.drivers[d].fromValue = fromValue,
                       !.drivers[d].onEnd = TRUE,
                       !.drivers[d].startTime = s.now,
                       !.drivers[d].frame = TRUE]
        [] OTHER ->
             Push([s EXCEPT !.drivers[d] =
                     IF previousAnimation # 0 /\ p.kind = "spring"
                     THEN setInternalState(fresh, p)
                     ELSE fresh],
                  <<Call("SpringAnimation_onUpdate", d, 0, 0)>>)

\* a variant that cancels the timers and tells nobody
Animation_stop_Silent(s, d) ==
  Emit([s EXCEPT !.drivers[d].timeout = FALSE,
                 !.drivers[d].frame = FALSE,
                 !.drivers[d].active = FALSE,
                 !.drivers[d].stopped = TRUE],
       Ev("Animation_stop", d, 0, FALSE))

\* stop() of the three classes
Animation_stop(s, d) ==
  Push(Emit([s EXCEPT !.drivers[d].timeout = FALSE,
                      !.drivers[d].frame = FALSE,
                      !.drivers[d].active = FALSE,
                      !.drivers[d].stopped = TRUE],
            Ev("Animation_stop", d, 0, FALSE)),
       <<CallCb("onEnd", d, 0, 0, NoCb, FALSE)>>)

\* this._animationFrame = window.requestAnimationFrame(this.onUpdate.bind(this))
requestAnimationFrame(s, d) == [s EXCEPT !.drivers[d].frame = TRUE]

\* this._onUpdate(value), the closure of animate(): this._updateValue(value)
Animation_onUpdate(s, d, value) ==
  Push(Emit(s, Ev("emit", d, value, FALSE)),
       <<Call("_updateValue", s.drivers[d].val, value, 0)>>)

\* what follows this._onUpdate(value) in the three onUpdate(): the end, or a frame
AfterUpdate(d, over) ==
  IF over THEN CallCb("onEnd", d, 0, 0, NoCb, TRUE)
  ELSE Call("requestAnimationFrame", d, 0, 0)

\* now > this._startTime + this._duration
TimingAnimation_isOver(a, t) == t > a.startTime + a.duration

\* (now - this._startTime) / this._duration through the identity easing
TimingAnimation_fraction(a, elapsed) ==
  IF a.duration = 0 THEN NaN ELSE Quot(elapsed * Unit, a.duration)

\* this._fromValue + fraction * (this._toValue - this._fromValue)
TimingAnimation_valueAt(a, fraction) ==
  IF NaN \in {fraction, a.fromValue, a.toValue} THEN NaN
  ELSE a.fromValue + Quot(fraction * (a.toValue - a.fromValue), Unit)

TimingAnimation_onUpdate(s, d) ==
  LET a == s.drivers[d]
      over == TimingAnimation_isOver(a, s.now)
      value == IF over THEN TimingAnimation_valueAt(a, Unit)
               ELSE TimingAnimation_valueAt(a, TimingAnimation_fraction(a, s.now - a.startTime))
  IN  Push(s, <<Call("Animation_onUpdate", d, value, 0), AfterUpdate(d, over)>>)

RECURSIVE ExpNeg(_)
\* Math.exp(-x / 1000) in 1/10000, for x >= 0
ExpNeg(x) ==
  IF x <= 100
  THEN 10000 - 10 * x + (x * x) \div 200 - (x * x * x) \div 600000
  ELSE LET h == ExpNeg(x \div 2) IN (h * h) \div 10000

DecayAnimation_valueAt(a, elapsed) ==
  Add(a.fromValue,
      Quot(Quot(a.velocity * 1000, 1000 - a.deceleration)
             * (10000 - ExpNeg((1000 - a.deceleration) * elapsed)), 10000))

\* Math.abs(this._lastValue - value) < 0.1
DecayAnimation_isOver(a, value) ==
  a.lastValue # NaN /\ value # NaN /\ Abs(a.lastValue - value) < Unit \div 10

DecayAnimation_onUpdate(s, d) ==
  LET a == s.drivers[d]
      value == DecayAnimation_valueAt(a, s.now - a.startTime)
      over == DecayAnimation_isOver(a, value)
  IN  Push([s EXCEPT !.drivers[d].lastValue = IF over THEN @ ELSE value],
           <<Call("Animation_onUpdate", d, value, 0), AfterUpdate(d, over)>>)

\* this._tension * (this._toValue - tempPosition) - this._friction * tempVelocity
SpringAnimation_acceleration(a, tempPosition, tempVelocity) ==
  Quot(a.tension * (a.toValue - tempPosition) - a.friction * tempVelocity, 100)

TIMESTEP_MSEC == 4

\* one iteration of the integration loop; q is <<position, velocity,
\* tempPosition, tempVelocity>>; step is TIMESTEP_MSEC / 1000
rk4_step(a, q) ==
  LET position == q[1]
      velocity == q[2]
      aVelocity == velocity
      aAcceleration == SpringAnimation_acceleration(a, q[3], q[4])
      tp1 == position + Quot(aVelocity * TIMESTEP_MSEC, 2000)
      tv1 == velocity + Quot(aAcceleration * TIMESTEP_MSEC, 2000)
      bVelocity == tv1
      bAcceleration == SpringAnimation_acceleration(a, tp1, tv1)
      tp2 == position + Quot(bVelocity * TIMESTEP_MSEC, 2000)
      tv2 == velocity + Quot(bAcceleration * TIMESTEP_MSEC, 2000)
      cVelocity == tv2
      cAcceleration == SpringAnimation_acceleration(a, tp2, tv2)
      tp3 == position + Quot(cVelocity * TIMESTEP_MSEC, 1000)
      tv3 == velocity + Quot(cAcceleration * TIMESTEP_MSEC, 1000)
      dVelocity == tv3
      dAcceleration == SpringAnimation_acceleration(a, tp3, tv3)
      dxdt == Quot(aVelocity + 2 * (bVelocity + cVelocity) + dVelocity, 6)
      dvdt == Quot(aAcceleration + 2 * (bAcceleration + cAcceleration) + dAcceleration, 6)
  IN  <<position + Quot(dxdt * TIMESTEP_MSEC, 1000), velocity + Quot(dvdt * TIMESTEP_MSEC, 1000), tp3, tv3>>

RECURSIVE rk4(_, _, _)
\* numSteps iterations of the loop: the first half of them, then the rest (the
\* comparison has the first half evaluated before the rest starts)
rk4(a, q, numSteps) ==
  IF numSteps <= 0 THEN q
  ELSE IF numSteps = 1 THEN rk4_step(a, q)
  ELSE LET half == rk4(a, q, numSteps \div 2)
       IN  IF half = <<>> THEN q ELSE rk4(a, half, numSteps - numSteps \div 2)

\* isOvershooting || (isVelocity && isDisplacement)
SpringAnimation_isOver(a, position, velocity) ==
  LET isOvershooting ==
        /\ a.overshootClamping
        /\ a.tension # 0
        /\ IF a.startPosition < a.toValue THEN position > a.toValue
           ELSE position < a.toValue
      isVelocity == Abs(velocity) <= a.restSpeedThreshold
      isDisplacement ==
        a.tension # 0 => Abs(a.toValue - position) <= a.restDisplacementThreshold
  IN  isOvershooting \/ (isVelocity /\ isDisplacement)

SpringAnimation_onUpdate(s, d) ==
  LET a == s.drivers[d]
      numSteps == (s.now - a.lastTime) \div TIMESTEP_MSEC
      q == rk4(a, <<a.lastPosition, a.lastVelocity, a.lastPosition, a.lastVelocity>>, numSteps)
      over == SpringAnimation_isOver(a, q[1], q[2])
  IN  IF ~a.active THEN s
      ELSE Push([s EXCEPT !.drivers[d].lastTime = s.now,
                          !.drivers[d].tempPosition = q[3],
                          !.drivers[d].tempVelocity = q[4],
                          !.drivers[d].lastPosition = q[1],
                          !.drivers[d].lastVelocity = q[2]],
                <<Call("Animation_onUpdate", d, q[1], 0), AfterUpdate(d, over)>>)

-----------------------------------------------------------------------------
(* The handler that event() returns *)

\* cb of the handler: lastUpdate = Date.now(); timer = null;
\* config.listener.apply(null, lastArgs).  The flag of the event: the
\* arguments delivered are those of an event that failed the mapping.
event_cb(s) ==
  LET e == s.mapper.lastArgs
  IN  Emit([s EXCEPT !.mapper.lastUpdate = s.now, !.mapper.timer = 0,
                     !.mapper.delivered = @ + 1],
           Ev("deliver", e.id, e.x, Undef \in {e.nativeEvent, e.x}))

\* a variant that sets a timer whether or not one is pending
event_listener_Unguarded(s) ==
  LET m == s.mapper
      wait == m.updatePeriod - s.now + m.lastUpdate
      id == m.lastArgs.id
  IN  IF ~m.listener THEN s
      ELSE IF m.updatePeriod # 0
      THEN [s EXCEPT !.mapper.timer = id,
                     !.mapper.timers = @ \cup {[id |-> id, due |-> IF wait > 0 THEN s.now + wait ELSE s.now]}]
      ELSE Push(s, <<Call("event_cb", 0, 0, 0)>>)

\* if (config && config.listener && !timer): what follows the mapping.  The
\* timer is named after the event that set it.
event_listener(s) ==
  LET m == s.mapper
      wait == m.updatePeriod - s.now + m.lastUpdate
      id == m.lastArgs.id
  IN  IF ~m.listener \/ m.timer # 0 THEN s
      ELSE IF m.updatePeriod # 0
      THEN [s EXCEPT !.mapper.timer = id,
                     !.mapper.timers = @ \cup {[id |-> id, due |-> IF wait > 0 THEN s.now + wait ELSE s.now]}]
      ELSE Push(s, <<Call("event_cb", 0, 0, 0)>>)

\* clearTimeout(timer); timer = null
event_clear(s) ==
  [s EXCEPT !.mapper.timers = {t \in @ : t.id # s.mapper.timer},
            !.mapper.timer = 0]

\* the function event() returns, called with one argument; traverse() walks
\* the mapping [{nativeEvent: {x: value}}] and the argument side by side
event_handler(s, nativeEvent, x) ==
  LET m == s.mapper
      s1 == [s EXCEPT !.mapper.count = @ + 1,
                      !.mapper.lastArgs = [id |-> m.count + 1, nativeEvent |-> nativeEvent, x |-> x]]
  IN  IF ~m.isEnabled THEN event_clear(s1)
      ELSE IF nativeEvent = Undef THEN Throw(s1)   \* typeof recEvt === 'object'
      ELSE IF x = Undef THEN Throw(s1)             \* typeof recEvt === 'number'
      ELSE Push(s1, <<Call("setValue", m.value, x, 0), Call("event_listener", 0, 0, 0)>>)

\* the timer t of the host expires and runs cb
event_timer(s, t) ==
  Push([s EXCEPT !.mapper.timers = @ \ {t}], <<Call("event_cb", 0, 0, 0)>>)

\* enable() and disable() of the object handed to config.ref
event_ref(s, enabled) ==
  IF enabled THEN [s EXCEPT !.mapper.isEnabled = TRUE]
  ELSE event_clear([s EXCEPT !.mapper.isEnabled = FALSE])

-----------------------------------------------------------------------------
(* Callbacks and the combinators *)

\* callback && callback(finished)
Invoke(s, callback, finished) ==
  CASE callback.k = "user" ->
         LET s0 == Emit([s EXCEPT !.calls[callback.c] =
                           IF Len(@) < MaxCalls THEN Append(@, finished) ELSE @],
                        Ev("callback", callback.c, 0, finished))
         IN  IF callback.i # 0 /\ ~finished /\ ~s.comps[callback.i].started
             THEN Push(s0, <<CallCb("start", callback.i, 0, 0, UserCb(callback.i), FALSE)>>)
             ELSE s0
    [] callback.k = "seq" ->
         Push(s, <<CallCb("sequence_onComplete", callback.c, callback.i, 0, NoCb, finished)>>)
    [] callback.k = "par" ->
         Push(s, <<CallCb("parallel_onComplete", callback.c, callback.i, 0, NoCb, finished)>>)
    [] OTHER -> s

\* animations.forEach(animation => animation.stop())
StopEach(animations) == [i \in 1..Len(animations) |-> Call("stop", animations[i], 0, 0)]

\* animations.forEach((animation, idx) => animation.start(finished => ..))
StartEach(c, animations) ==
  [i \in 1..Len(animations) |-> CallCb("start", animations[i], 0, 0, ParCb(c, i), FALSE)]

\* new AnimatedTracking(value, config.toValue, SpringAnimation, config, callback),
\* whose constructor calls attach(), then value.track(it)
start_track(s, c, callback) ==
  LET co == s.comps[c]
      t == co.tracking
  IN  Push([s EXCEPT !.nodes[t] =
              [Node("Tracking", <<co.config.toNode>>) EXCEPT
                 !.owner = co.value, !.comp = c, !.cb = callback]],
           <<Call("attach", t, 0, 0), Call("track", co.value, t, 0)>>)

\* value.animate(new XAnimation(config), callback)
start_animate(s, c, callback) ==
  LET co == s.comps[c]
      animation == CASE co.type = "timing" -> TimingAnimation(co.config)
                     [] co.type = "decay" -> DecayAnimation(co.config)
                     [] OTHER -> SpringAnimation(co.config)
  IN  Push([s EXCEPT !.drivers = Append(@, animation)],
           <<CallCb("animate", co.value, Len(s.drivers) + 1, 0, callback, FALSE)>>)

\* start(callback) of the object each factory returns
start(s, c, callback) ==
  LET co == s.comps[c]
      s0 == Emit([s EXCEPT !.comps[c].started = TRUE, !.comps[c].startedAt = s.now,
                          !.comps[c].callback = callback],
                 Ev("start", c, 0, FALSE))
  IN  CASE co.type \in {"timing", "decay"} ->
             Push(s0, <<Call("stopTracking", co.value, 0, 0),
                        CallCb("start_animate", c, 0, 0, callback, FALSE)>>)
        [] co.type = "spring" ->
             Push(s0, <<Call("stopTracking", co.value, 0, 0),
                        CallCb(IF co.config.toNode # 0 THEN "start_track" ELSE "start_animate",
                               c, 0, 0, callback, FALSE)>>)
        [] co.type = "sequence" ->
             IF Len(co.animations) = 0 THEN Invoke(s0, callback, TRUE)
             ELSE IF co.current >= Len(co.animations) THEN Throw(s0)
             ELSE Push(s0, <<CallCb("start", co.animations[co.current + 1], 0, 0,
                                    SeqCb(c, co.current + 1), FALSE)>>)
        [] OTHER ->
             IF co.doneCount = Len(co.animations) THEN Invoke(s0, callback, TRUE)
             ELSE Push(s0, StartEach(c, co.animations))

\* stop() of the object each factory returns
stop(s, c) ==
  LET co == s.comps[c]
      s0 == Emit([s EXCEPT !.comps[c].stopped = TRUE], Ev("stop", c, 0, FALSE))
  IN  CASE co.type \in {"timing", "decay", "spring"} ->
             Push(s0, <<Call("stopAnimation", co.value, 0, 0)>>)
        [] co.type = "sequence" ->
             IF co.current < Len(co.animations)
             THEN Push(s0, <<Call("stop", co.animations[co.current + 1], 0, 0)>>)
             ELSE s0
        [] OTHER ->
             Push([s0 EXCEPT !.comps[c].hasBeenStopped = TRUE],
                  StopEach(co.animations))

\* the closure onComplete of sequence().start, called from element i;
\* animations[current] is undefined once current has passed the end
sequence_onComplete(s, c, i, finished) ==
  LET co == s.comps[c]
      current == co.current + 1
      s0 == [s EXCEPT !.comps[c].reports = Append(@, [e |-> i, f |-> finished])]
      s1 == [s0 EXCEPT !.comps[c].current = current]
  IN  IF ~finished THEN Invoke(s0, co.callback, finished)
      ELSE IF current = Len(co.animations) THEN Invoke(s1, co.callback, TRUE)
      ELSE IF current > Len(co.animations) THEN Throw(s1)
      ELSE Push(s1, <<CallCb("start", co.animations[current + 1], 0, 0,
                             SeqCb(c, current + 1), FALSE)>>)

\* a variant that stops the others on every unfinished report
parallel_onComplete_Unguarded(s, c, i, finished) ==
  LET co == s.comps[c]
      s1 == [s EXCEPT !.comps[c].doneCount = @ + 1,
                      !.comps[c].reports = Append(@, [e |-> i, f |-> finished])]
  IN  IF co.doneCount + 1 = Len(co.animations) THEN Invoke(s1, co.callback, finished)
      ELSE IF ~finished
      THEN Push(Emit([s1 EXCEPT !.comps[c].autostops = Bump(@)], Ev("autostop", c, 0, FALSE)),
                <<Call("stop", c, 0, 0)>>)
      ELSE s1

\* the closure parallel().start passes to element i
parallel_onComplete(s, c, i, finished) ==
  LET co == s.comps[c]
      s1 == [s EXCEPT !.comps[c].doneCount = @ + 1,
                      !.comps[c].reports = Append(@, [e |-> i, f |-> finished])]
  IN  IF co.doneCount + 1 = Len(co.animations) THEN Invoke(s1, co.callback, finished)
      ELSE IF ~finished /\ ~co.hasBeenStopped
      THEN Push(Emit([s1 EXCEPT !.comps[c].autostops = Bump(@)], Ev("autostop", c, 0, FALSE)),
                <<Call("stop", c, 0, 0)>>)
      ELSE s1

-----------------------------------------------------------------------------
(* What the host calls besides the methods above *)

\* new AnimatedProps(props, callback): the constructor ends with this.attach()
AnimatedProps(s, n) == Push([s EXCEPT !.nodes[n].made = TRUE], <<Call("attach", n, 0, 0)>>)

\* a variant that detaches the old node, then constructs the new one
attachProps_DetachFirst(s, old, next) ==
  Push(s, <<Call("detach", old, 0, 0), Call("AnimatedProps", next, 0, 0)>>)

\* AnimatedComponent.attachProps on a mounted component (componentWillReceiveProps):
\* this._propsAnimated = new AnimatedProps(nextProps, callback), then
\* oldPropsAnimated.detach()
attachProps(s, old, next) ==
  Push(s, <<Call("AnimatedProps", next, 0, 0), Call("detach", old, 0, 0)>>)

setOffset(s, v, offset) == [s EXCEPT !.nodes[v].offset = offset]

\* the frame callback requested by driver d: this.onUpdate.bind(this)
Frame(s, d) ==
  Push([s EXCEPT !.drivers[d].frame = FALSE],
       <<Call(CASE s.drivers[d].kind = "timing" -> "TimingAnimation_onUpdate"
                [] s.drivers[d].kind = "decay" -> "DecayAnimation_onUpdate"
                [] OTHER -> "SpringAnimation_onUpdate", d, 0, 0)>>)

\* Date.now() grows
Advance(s, dt) == [s EXCEPT !.now = @ + dt]

-----------------------------------------------------------------------------
(* Running a handler to completion *)

\* one pending call: the function it names, applied to its arguments
Exec(s, t) ==
  CASE t.op = "addChild" -> addChild(s, t.a, t.b)
    [] t.op = "addChild_push" -> addChild_push(s, t.a, t.b)
    [] t.op = "removeChild" -> removeChild(s, t.a, t.b)
    [] t.op = "attach" -> attach(s, t.a)
    [] t.op = "detach" -> detach(s, t.a)
    [] t.op = "detach_inactive" -> detach_inactive(s, t.a)
    [] t.op = "_flush" -> _flush(s, t.a)
    [] t.op = "update" -> update(s, t.a, t.b)
    [] t.op = "setValue" -> setValue(s, t.a, t.b)
    [] t.op = "setValue_clear" -> setValue_clear(s, t.a)
    [] t.op = "_updateValue" -> _updateValue(s, t.a, t.b)
    [] t.op = "callListeners" -> callListeners(s, t.a)
    [] t.op = "animate" -> animate(s, t.a, t.b, t.cb)
    [] t.op = "animate_start" -> animate_start(s, t.a, t.b, t.c, t.cb)
    [] t.op = "stopTracking" -> stopTracking(s, t.a)
    [] t.op = "stopAnimation" -> stopAnimation(s, t.a)
    [] t.op = "stopAnimation_stop" -> stopAnimation_stop(s, t.a)
    [] t.op = "track" -> track(s, t.a, t.b)
    [] t.op = "track_set" -> track_set(s, t.a, t.b)
    [] t.op = "onEnd" -> onEnd(s, t.a, t.f)
    [] t.op = "Animation_start" -> Animation_start(s, t.a, t.b, t.c)
    [] t.op = "Animation_stop" -> Animation_stop(s, t.a)
    [] t.op = "Animation_onUpdate" -> Animation_onUpdate(s, t.a, t.b)
    [] t.op = "requestAnimationFrame" -> requestAnimationFrame(s, t.a)
    [] t.op = "SpringAnimation_onUpdate" -> SpringAnimation_onUpdate(s, t.a)
    [] t.op = "Invoke" -> Invoke(s, t.cb, t.f)
    [] t.op = "start_track" -> start_track(s, t.a, t.cb)
    [] t.op = "start_animate" -> start_animate(s, t.a, t.cb)
    [] t.op = "start" -> start(s, t.a, t.cb)
    [] t.op = "stop" -> stop(s, t.a)
    [] t.op = "sequence_onComplete" -> sequence_onComplete(s, t.a, t.b, t.f)
    [] t.op = "parallel_onComplete" -> parallel_onComplete(s, t.a, t.b, t.f)
    [] t.op = "TimingAnimation_onUpdate" -> TimingAnimation_onUpdate(s, t.a)
    [] t.op = "DecayAnimation_onUpdate" -> DecayAnimation_onUpdate(s, t.a)
    [] t.op = "TimingAnimation_begin" -> TimingAnimation_begin(s, t.a)
    [] t.op = "addListener" -> addListener(s, t.a)
    [] t.op = "removeListener" -> removeListener(s, t.a, t.b)
    [] t.op = "setOffset" -> setOffset(s, t.a, t.b)
    [] t.op = "AnimatedProps" -> AnimatedProps(s, t.a)
    [] t.op = "Frame" -> Frame(s, t.a)
    [] t.op = "Advance" -> Advance(s, t.a)
    [] t.op = "attachProps" -> attachProps(s, t.a, t.b)
    [] t.op = "event_handler" -> event_handler(s, t.a, t.b)
    [] t.op = "event_listener" -> event_listener(s)
    [] t.op = "event_cb" -> event_cb(s)
    [] t.op = "event_timer" -> event_timer(s, [id |-> t.a, due |-> t.b])
    [] t.op = "event_ref" -> event_ref(s, t.f)

RECURSIVE Run(_)
\* the innermost pending call runs first, until the stack is empty
Run(s) ==
  IF s.stack = <<>> THEN s
  ELSE Run(Exec([s EXCEPT !.stack = Tail(@)], Head(s.stack)))

\* a handler entered from the host with one call
Handle(call) == Run(Push([Enter EXCEPT !.entry = call], <<call>>))

-----------------------------------------------------------------------------
(* The actions: one handler each, run to completion *)

Nodes == DOMAIN nodes
Comps == DOMAIN comps
Drivers == DOMAIN drivers

\* the handler left the state s
Done(s) == Len(s.drivers) <= MaxDrivers /\ Assign(s)

Call_addChild(n, child) ==
  /\ nodes[n].made /\ nodes[child].made
  /\ HasChildren(nodes[n].kind)
  /\ Len(nodes[n].children) < MaxChildren
  /\ Done(Handle(Call("addChild", n, child, 0)))

Call_removeChild(n, child) ==
  /\ nodes[n].made /\ nodes[child].made
  /\ HasChildren(nodes[n].kind)
  /\ Done(Handle(Call("removeChild", n, child, 0)))

Call_newProps(n) ==
  /\ nodes[n].kind = "Props" /\ ~nodes[n].made
  /\ Done(Handle(Call("AnimatedProps", n, 0, 0)))

\* componentWillUnmount, or a re-render dropping the old AnimatedProps
Call_detach(n) ==
  /\ nodes[n].kind = "Props" /\ nodes[n].made
  /\ Done(Handle(Call("detach", n, 0, 0)))

Call_setValue(v, value) ==
  /\ nodes[v].kind = "Value" /\ nodes[v].made
  /\ Done(Handle(Call("setValue", v, value, 0)))

Call_setOffset(v, offset) ==
  /\ nodes[v].kind = "Value" /\ nodes[v].made
  /\ Done(Handle(Call("setOffset", v, offset, 0)))

Call_addListener(v) ==
  /\ nodes[v].kind = "Value" /\ nodes[v].made
  /\ uid <= MaxListeners
  /\ Done(Handle(Call("addListener", v, 0, 0)))

Call_removeListener(v, id) ==
  /\ nodes[v].kind = "Value" /\ nodes[v].made
  /\ IndexOf(nodes[v].listeners, id) # 0
  /\ Done(Handle(Call("removeListener", v, id, 0)))

\* c.start(callback) by the user, once per object.  The callback is the
\* closure id of the user, which restarts the composite next when next # 0;
\* it is named by its two numbers and built here, in the step itself: TLC
\* evaluates the arguments of an action once for all its workers, and a
\* record handed over as an argument would be one object shared by them.
Call_start(c, id, next) ==
  /\ ~comps[c].started
  /\ Done(Handle(CallCb("start", c, 0, 0, RestartCb(id, next), FALSE)))

Call_stop(c) ==
  /\ Done(Handle(Call("stop", c, 0, 0)))

\* the frame callback requested by driver d runs
Tick(d) ==
  /\ drivers[d].frame
  /\ Done(Handle(Call("Frame", d, 0, 0)))

\* the timer set by TimingAnimation.start expires
Timeout(d) ==
  /\ drivers[d].timeout
  /\ now >= drivers[d].due
  /\ Done(Handle(Call("TimingAnimation_begin", d, 0, 0)))

\* time passes
Pass(dt) ==
  /\ now + dt <= MaxNow
  /\ Done(Handle(Call("Advance", dt, 0, 0)))

-----------------------------------------------------------------------------
(* The dependency graph: a Value a read by an interpolation i, by a style     *)
(* (through i and, under two keys, directly), by two Props nodes, and        *)
(* tracked by a second Value b.                                              *)

GraphNodes ==
  <<ValueNode(0),                        \* 1: a
    Node("Interpolation", <<1>>),         \* 2: i = a.interpolate(..)
    Node("Style", <<2, 1, 1>>),           \* 3: {opacity: i, left: a, top: a}
    Unmade("Props", <<3>>),               \* 4: {style: 3}
    Unmade("Props", <<1, 2>>),            \* 5: {x: a, y: i}
    ValueNode(0),                         \* 6: b
    Unmade("Tracking", <<1>>)>>           \* 7: made by spring(b, {toValue: a})

GraphComps ==
  <<spring(6, [Config EXCEPT !.toNode = 1, !.restDisplacementThreshold = Unit,
                             !.restSpeedThreshold = Unit], 7)>>

\* addChild/removeChild called directly, outside attach() and detach()
GraphEdges == {<<2, 5>>}

GraphValues == {0, Unit}

InitGraph ==
  /\ now = 0
  /\ nodes = GraphNodes
  /\ drivers = <<>>
  /\ comps = GraphComps
  /\ uid = 1
  /\ entry = Call("new", 0, 0, 0)
  /\ ev = <<>>
  /\ err = FALSE
  /\ calls = <<<<>>>>
  /\ mapper = event(0, FALSE, 0, FALSE)

NextGraph ==
  \/ \E e \in GraphEdges : Call_addChild(e[1], e[2])
  \/ \E e \in GraphEdges : Call_removeChild(e[1], e[2])
  \/ \E n \in Nodes : Call_newProps(n)
  \/ \E n \in Nodes : Call_detach(n)
  \/ \E value \in GraphValues : Call_setValue(1, value)
  \/ Call_start(1, 1, 0)
  \/ Call_stop(1)

SpecGraph == InitGraph /\ [][NextGraph]_vars

\* the events of the last handler that concern node n, in order
EventsOf(n, types) == SelectSeq(ev, LAMBDA e : e.n = n /\ e.t \in types)

\* C1: on every node built on AnimatedWithChildren, attach() calls minus detach()
\* calls is 1 while the child list is non-empty and 0 while it is empty, and in
\* every handler attach() is called exactly before the push that makes the
\* list one long, detach() exactly after the splice that empties it.
C1_AttachDetach ==
  \A n \in Nodes :
    HasChildren(nodes[n].kind) =>
      LET log == EventsOf(n, {"attach", "detach", "push", "splice"})
      IN  /\ nodes[n].balance = IF Len(nodes[n].children) = 0 THEN 0 ELSE 1
          /\ \A k \in DOMAIN log :
                /\ log[k].t = "attach" =>
                     k < Len(log) /\ log[k + 1].t = "push" /\ log[k + 1].x = 1
                /\ (log[k].t = "push" /\ log[k].x = 1) =>
                     k > 1 /\ log[k - 1].t = "attach"
                /\ (log[k].t = "splice" /\ log[k].x = 0) =>
                     k < Len(log) /\ log[k + 1].t = "detach"
                /\ log[k].t = "detach" =>
                     k > 1 /\ log[k - 1].t = "splice" /\ log[k - 1].x = 0

\* the interpolation got a second child by a direct addChild, then lost both
C1_Witness ==
  /\ entry.op = "removeChild" /\ entry.a = 2
  /\ nodes[2].children = <<>>
  /\ EventsOf(2, {"detach"}) # <<>>
  /\ EventsOf(1, {"splice"}) # <<>>

RECURSIVE ReachFrom(_, _)
\* the nodes that k child edges or fewer lead to from the set S
ReachFrom(S, k) ==
  IF k = 0 THEN S
  ELSE ReachFrom(S \cup {c \in Nodes : \E n \in S : IndexOf(getChildren(State, n), c) # 0},
                 k - 1)

\* the nodes with update() that child edges lead to from n
Terminals(n) == {m \in ReachFrom({n}, Len(nodes)) : HasUpdate(nodes[m].kind)}

\* C2: in every flush, update() is called once on each node with update() that
\* child edges lead to from the changed Value, and on no other node.
C2_FlushOnce ==
  \A i \in DOMAIN ev :
    ev[i].t = "flush" =>
      \A m \in Nodes :
        Cardinality({j \in DOMAIN ev : ev[j].t = "update" /\ ev[j].n = m /\ ev[j].x = ev[i].x})
          = IF m \in Terminals(ev[i].n) THEN 1 ELSE 0

\* a is flushed while one Props node reads it directly and through i, the
\* other through the style that lists a twice, and b tracks it
C2_Witness ==
  /\ entry.op = "setValue"
  /\ CountEv(ev, "flush") = 1
  /\ Terminals(1) = {4, 5, 7}
  /\ Len(nodes[1].children) >= 4

-----------------------------------------------------------------------------
(* One Value with an offset and listeners, read by one Props node and       *)
(* animated by a timing.                                                     *)

ValueNodes ==
  <<ValueNode(0),              \* 1: a
    Unmade("Props", <<1>>)>>   \* 2: {x: a}

ValueComps == <<timing(1, [Config EXCEPT !.toValue = 2 * Unit, !.duration = 1000])>>

ValueValues == {0, Unit, 2 * Unit}
ValueOffsets == {0, Unit}
ValueStep == 500

InitValue ==
  /\ now = 0
  /\ nodes = ValueNodes
  /\ drivers = <<>>
  /\ comps = ValueComps
  /\ uid = 1
  /\ entry = Call("new", 0, 0, 0)
  /\ ev = <<>>
  /\ err = FALSE
  /\ calls = <<<<>>>>
  /\ mapper = event(0, FALSE, 0, FALSE)

NextValue ==
  \/ \E value \in ValueValues : Call_setValue(1, value)
  \/ \E offset \in ValueOffsets : Call_setOffset(1, offset)
  \/ Call_addListener(1)
  \/ \E id \in 1..MaxListeners : Call_removeListener(1, id)
  \/ Call_newProps(2)
  \/ Call_start(1, 1, 0)
  \/ \E d \in Drivers : Tick(d)
  \/ Pass(ValueStep)

SpecValue == InitValue /\ [][NextValue]_vars

\* the listener calls of the last handler
ListenerCalls(log) == SelectSeq(log, LAMBDA e : e.t = "listener")

\* what a setValue(v, x) handler must have done when same tells whether x is
\* taken for the value the node already has
SetValueEffect(same) ==
  entry'.op = "setValue" =>
    LET v == entry'.a
        x == entry'.b
        called == ListenerCalls(ev')
    IN  IF same
        THEN CountEv(ev', "flush") = 0 /\ called = <<>>
        ELSE /\ CountEv(ev', "flush") = 1
             /\ nodes'[v].value = x
             /\ Len(called) = Len(nodes[v].listeners)
             /\ \A k \in DOMAIN called :
                  /\ called[k].n = nodes[v].listeners[k]
                  /\ called[k].x = Add(x, nodes[v].offset)

\* C3: setValue(x) does no flush and calls no listener when x equals the
\* stored value of the node, the offset left out; otherwise it does one flush
\* and calls every listener once with x + offset.
C3_SetValueStored ==
  [][SetValueEffect(StrictEq(entry'.b, nodes[entry'.a].value))]_vars

\* C3 as stated: the comparison is with getValue(), stored value + offset.
C3_SetValueResolved ==
  [][SetValueEffect(StrictEq(entry'.b, getValue(State, entry'.a)))]_vars

\* setValue(x) with x = stored value + offset and a non-zero offset: both
\* listeners are called, with x + offset
C3_Witness ==
  /\ entry.op = "setValue"
  /\ nodes[1].offset # 0
  /\ nodes[1].value = entry.b
  /\ Len(ListenerCalls(ev)) = 2
  /\ CountEv(ev, "update") = 1
  /\ \A k \in 1..2 : ListenerCalls(ev)[k].x = 2 * entry.b

-----------------------------------------------------------------------------
(* The three drivers on one Value: two composites, each a timing from 0 to  *)
(* 100 in 1000 ms after a delay of 500 ms, a decay or a spring.              *)

DriverNodes == <<ValueNode(0)>>

DriverChoices ==
  {timing(1, [Config EXCEPT !.toValue = 100 * Unit, !.duration = 1000, !.delay = 500]),
   decay(1, [Config EXCEPT !.velocity = 10, !.deceleration = 990]),
   spring(1, [Config EXCEPT !.toValue = 100 * Unit, !.tension = 10,
                            !.restDisplacementThreshold = Unit \div 10,
                            !.restSpeedThreshold = Unit \div 2], 0)}

DriverStep == 500

InitDriver ==
  /\ now = 0
  /\ nodes = DriverNodes
  /\ drivers = <<>>
  /\ comps \in {<<x, y>> : x \in DriverChoices, y \in DriverChoices}
  /\ uid = 1
  /\ entry = Call("new", 0, 0, 0)
  /\ ev = <<>>
  /\ err = FALSE
  /\ calls = <<<<>>, <<>>>>
  /\ mapper = event(0, FALSE, 0, FALSE)

NextDriver ==
  \/ \E c \in Comps : Call_start(c, c, 0)
  \/ \E c \in Comps : Call_stop(c)
  \/ \E d \in Drivers : Tick(d)
  \/ \E d \in Drivers : Timeout(d)
  \/ Pass(DriverStep)

SpecDriver == InitDriver /\ [][NextDriver]_vars

\* C4: the completion callback of a started driver fires at most once; a
\* stop() that finds it not yet fired fires it with false at once, and it
\* fires with false only from stop(), with true only from a tick.
C4_CompletionOnce ==
  \A d \in Drivers :
    /\ Len(drivers[d].ends) <= 1
    /\ \A i \in DOMAIN ev :
         /\ (ev[i].t = "Animation_stop" /\ ev[i].n = d) =>
              \/ i < Len(ev) /\ ev[i + 1] = Ev("end", d, 0, FALSE)
              \/ /\ drivers[d].ends # <<>>
                 /\ \A j \in DOMAIN ev : j > i => ~(ev[j].t = "end" /\ ev[j].n = d)
         /\ (ev[i].t = "end" /\ ev[i].n = d) =>
              /\ drivers[d].ends = <<ev[i].f>>
              /\ ev[i].f = FALSE <=> (i > 1 /\ ev[i - 1] = Ev("Animation_stop", d, 0, FALSE))
              /\ ev[i].f = TRUE => entry.op \in {"Frame", "start"}

\* the timing was stopped before its delay had expired
C4_Witness ==
  /\ entry.op = "stop"
  /\ now = 0
  /\ Len(drivers) = 1
  /\ drivers[1].kind = "timing" /\ drivers[1].ends = <<FALSE>>
  /\ ~drivers[1].timeout
  /\ CountEv(ev, "Animation_stop") = 1 /\ CountEv(ev, "end") = 1
  /\ calls[1] = <<FALSE>>

\* the timing of C5, ticked by the last handler
TimingTicked(d) ==
  /\ entry.op = "Frame" /\ entry.a = d
  /\ drivers[d].kind = "timing"
  /\ drivers[d].fromValue = 0 /\ drivers[d].toValue = 100 * Unit
  /\ drivers[d].duration = 1000

\* C5 as stated: a tick 500 ms after the start emits 50; a tick 1000 ms or
\* more after the start emits 100, completes with true, and requests no
\* further frame.
C5_TimingSamples ==
  \A d \in Drivers :
    TimingTicked(d) =>
      LET elapsed == now - drivers[d].startTime
      IN  /\ elapsed = 500 => ev[1] = Ev("emit", d, 50 * Unit, FALSE)
          /\ elapsed >= 1000 =>
               /\ ev[1] = Ev("emit", d, 100 * Unit, FALSE)
               /\ drivers[d].ends = <<TRUE>>
               /\ ~drivers[d].frame

\* what the code does: the same, with completion only at a tick more than
\* 1000 ms after the start
C5_TimingStrict ==
  \A d \in Drivers :
    TimingTicked(d) =>
      LET elapsed == now - drivers[d].startTime
      IN  /\ elapsed = 500 => ev[1] = Ev("emit", d, 50 * Unit, FALSE)
          /\ elapsed >= 1000 => ev[1] = Ev("emit", d, 100 * Unit, FALSE)
          /\ elapsed > 1000 => drivers[d].ends = <<TRUE>> /\ ~drivers[d].frame
          /\ elapsed <= 1000 => drivers[d].ends = <<>> /\ drivers[d].frame

-----------------------------------------------------------------------------
(* The combinators.  The first element is either a spring whose toValue is  *)
(* the Value a, so that b tracks a, or a timing on b; the others are        *)
(* timings on Values of their own.                                           *)

CombNodes ==
  <<ValueNode(0),                \* 1: a
    ValueNode(0),                \* 2: b
    Unmade("Tracking", <<1>>),   \* 3: made by spring(b, {toValue: a})
    ValueNode(0),                \* 4: c
    ValueNode(0),                \* 5: d
    ValueNode(0)>>               \* 6: the Value of a delay()

TrackingSpring ==
  spring(2, [Config EXCEPT !.toNode = 1,
                           !.restDisplacementThreshold = Unit \div 10,
                           !.restSpeedThreshold = Unit \div 2], 3)

FirstChoices == {TrackingSpring, timing(2, [Config EXCEPT !.toValue = Unit, !.duration = 250])}

CombValues == {Unit, 2 * Unit}
CombStep == 1000

\* the flags a callback of the user received that are true
TrueCalls(c) == {k \in DOMAIN calls[c] : calls[c][k]}

\* the elements of the combinator c that have called its closure
Reported(c) == {comps[c].reports[k].e : k \in DOMAIN comps[c].reports}

InitComb(rest) ==
  /\ now = 0
  /\ nodes = CombNodes
  /\ drivers = <<>>
  /\ comps \in {<<first>> \o rest : first \in FirstChoices}
  /\ uid = 1
  /\ entry = Call("new", 0, 0, 0)
  /\ ev = <<>>
  /\ err = FALSE
  /\ calls = <<<<>>, <<>>>>
  /\ mapper = event(0, FALSE, 0, FALSE)

\* sequence([first, timing(c)]) and sequence([])
SeqComps ==
  <<timing(4, [Config EXCEPT !.toValue = Unit, !.duration = 250]),
    sequence(<<1, 2>>),
    sequence(<<>>)>>

InitSeq == InitComb(SeqComps)

NextSeq ==
  \/ Call_start(3, 1, 0)
  \/ Call_start(4, 2, 0)
  \/ Call_stop(3)
  \/ \E value \in CombValues : Call_setValue(1, value)
  \/ Call_setValue(2, 0)
  \/ \E d \in Drivers : Tick(d)
  \/ Pass(CombStep)

SpecSeq == InitSeq /\ [][NextSeq]_vars

\* C6 as stated: once an element of the sequence has reported false, the
\* callback of the sequence has been called once, with false, and no later
\* element has been started.
C6_SequenceAborts ==
  \A k \in DOMAIN comps[3].reports :
    ~comps[3].reports[k].f =>
      /\ calls[1] = <<FALSE>>
      /\ \A j \in DOMAIN comps[3].animations :
           j > comps[3].reports[k].e => ~comps[comps[3].animations[j]].started

\* C7 as stated: an element after the first has been started only if the one
\* before it has reported true; the callback of the sequence has been called
\* with true at most once, and exactly if the last element has reported true;
\* the empty sequence has called it with true when start() returns.
C7_SequenceOrder ==
  /\ \A j \in DOMAIN comps[3].animations :
       (j > 1 /\ comps[comps[3].animations[j]].started) =>
         \E k \in DOMAIN comps[3].reports : comps[3].reports[k] = [e |-> j - 1, f |-> TRUE]
  /\ Cardinality(TrueCalls(1)) <= 1
  /\ TrueCalls(1) # {} <=>
       \E k \in DOMAIN comps[3].reports :
         comps[3].reports[k] = [e |-> Len(comps[3].animations), f |-> TRUE]
  /\ ~err
  /\ comps[4].started => calls[2] = <<TRUE>>

\* both hold of the sequences whose elements are timings
C67_Timings == comps[1].type = "timing" => C6_SequenceAborts /\ C7_SequenceOrder

\* parallel([first, timing(c), timing(d)]) and parallel([])
ParComps ==
  <<timing(4, [Config EXCEPT !.toValue = Unit, !.duration = 250]),
    timing(5, [Config EXCEPT !.toValue = Unit, !.duration = 250, !.delay = 1000]),
    parallel(<<1, 2, 3>>),
    parallel(<<>>)>>

InitPar == InitComb(ParComps)

NextPar ==
  \/ Call_start(4, 1, 0)
  \/ Call_start(5, 2, 0)
  \/ Call_stop(4)
  \/ \E value \in CombValues : Call_setValue(1, value)
  \/ Call_setValue(2, 0)
  \/ \E d \in Drivers : Tick(d)
  \/ \E d \in Drivers : Timeout(d)
  \/ Pass(CombStep)

SpecPar == InitPar /\ [][NextPar]_vars

\* C8: the closure of parallel calls stop() at most once; when it does, each
\* element's stop() is called once from it; and once an element has reported
\* false while another had not reported, stop() has been called on the
\* parallel and so on every element.
C8_StopOnce ==
  /\ comps[4].autostops <= 1
  /\ \A i \in DOMAIN ev :
       ev[i] = Ev("autostop", 4, 0, FALSE) =>
         \A e \in DOMAIN comps[4].animations :
           Cardinality({j \in DOMAIN ev :
                          j > i /\ ev[j] = Ev("stop", comps[4].animations[e], 0, FALSE)}) = 1
  /\ \A k \in DOMAIN comps[4].reports :
       (~comps[4].reports[k].f /\ k < Len(comps[4].animations)) =>
         /\ comps[4].hasBeenStopped
         /\ \A e \in DOMAIN comps[4].animations : comps[comps[4].animations[e]].stopped

\* setValue on b stopped the first element while the two others were running:
\* the closure stopped the parallel, and the two others reported false
C8_Witness ==
  /\ entry.op = "setValue" /\ entry.a = 2
  /\ comps[4].autostops = 1
  /\ comps[4].reports = <<[e |-> 1, f |-> FALSE], [e |-> 2, f |-> FALSE], [e |-> 3, f |-> FALSE]>>
  /\ calls[1] = <<FALSE>>

\* the position in reports of the report that made every element have reported
LastReport(c) ==
  CHOOSE k \in DOMAIN comps[c].reports :
    /\ {comps[c].reports[j].e : j \in 1..k} = DOMAIN comps[c].animations
    /\ {comps[c].reports[j].e : j \in 1..(k - 1)} # DOMAIN comps[c].animations

\* C9 as stated: start() starts every element; the callback of the parallel
\* is called at most once, only when every element has reported, and then
\* with the flag of the last element to report; parallel([]) calls it with
\* true when start() returns.
C9_ParallelCompletes ==
  /\ comps[4].started =>
       \A e \in DOMAIN comps[4].animations : comps[comps[4].animations[e]].started
  /\ Len(calls[1]) <= 1
  /\ calls[1] # <<>> => Reported(4) = DOMAIN comps[4].animations
  /\ Reported(4) = DOMAIN comps[4].animations =>
       calls[1] = <<comps[4].reports[LastReport(4)].f>>
  /\ comps[5].started => calls[2] = <<TRUE>>

\* it holds of the parallel whose elements are timings
C9_Timings == comps[1].type = "timing" => C9_ParallelCompletes

StaggerTime == 1000

\* stagger(StaggerTime, [first, timing(c)]): parallel over the elements, each
\* wrapped in sequence([delay(StaggerTime * i), element])
StaggerComps ==
  <<timing(4, [Config EXCEPT !.toValue = Unit, !.duration = 250]),
    delay(5, StaggerTime * 0),
    delay(6, StaggerTime * 1),
    sequence(<<3, 1>>),
    sequence(<<4, 2>>),
    parallel(<<5, 6>>)>>

InitStagger == InitComb(StaggerComps)

NextStagger ==
  \/ Call_start(7, 1, 0)
  \/ Call_stop(7)
  \/ \E value \in CombValues : Call_setValue(1, value)
  \/ \E d \in Drivers : Tick(d)
  \/ \E d \in Drivers : Timeout(d)
  \/ Pass(CombStep)

SpecStagger == InitStagger /\ [][NextStagger]_vars

\* stop() was called on the stagger, not by its own closure, while the delay
\* composite c had not completed
StoppedInDelay(c) ==
  /\ comps[7].stopped
  /\ comps[7].autostops = 0
  /\ \E d \in Drivers : drivers[d].val = comps[c].value /\ drivers[d].ends = <<FALSE>>

\* C10 as stated: an element of the stagger has been started only if its
\* delay has reported true, and not before StaggerTime * i after the start of
\* the stagger; if stop() was called on the stagger while the delay of an
\* element was pending, that element has not been started and the callback
\* of the stagger has been called once, with false.
C10_Stagger ==
  \A i \in DOMAIN comps[7].animations :
    LET seq == comps[7].animations[i]
        del == comps[seq].animations[1]
        element == comps[seq].animations[2]
    IN  /\ comps[element].started =>
             /\ \E k \in DOMAIN comps[seq].reports :
                  comps[seq].reports[k] = [e |-> 1, f |-> TRUE]
             /\ comps[element].startedAt >= comps[7].startedAt + StaggerTime * (i - 1)
        /\ StoppedInDelay(del) =>
             /\ ~comps[element].started
             /\ calls[1] = <<FALSE>>

\* it holds of the stagger whose elements are timings
C10_Timings == comps[1].type = "timing" => C10_Stagger

-----------------------------------------------------------------------------
(* stop() of a composite *)

\* the handler was c.stop(), c started with a callback of the user that had
\* not been called: the handler called it once, with false
StopCallsBack(c) ==
  (/\ entry'.op = "stop" /\ entry'.a = c
   /\ comps[c].started
   /\ comps[c].callback.k = "user"
   /\ calls[comps[c].callback.c] = <<>>)
    => calls'[comps[c].callback.c] = <<FALSE>>

\* C11 as stated: stop() on a composite that has been started and has not
\* reported completion calls its start callback with false before stop()
\* returns, a spring whose toValue is a node included.
C11_StopCallsBack == [][\A c \in Comps : StopCallsBack(c)]_vars

\* it holds where no spring tracks a node
C11_Numbers == [][comps[1].config.toNode = 0 => \A c \in Comps : StopCallsBack(c)]_vars

-----------------------------------------------------------------------------
(* Every kind of composite, each of which the user may stop: the stagger of  *)
(* two elements, the first of them a tracking spring, a timing, a decay or a *)
(* spring to a number.                                                       *)

StopChoices ==
  FirstChoices \cup
    {decay(2, [Config EXCEPT !.velocity = 10, !.deceleration = 990]),
     spring(2, [Config EXCEPT !.toValue = Unit, !.restDisplacementThreshold = Unit \div 10,
                              !.restSpeedThreshold = Unit \div 2], 0)}

InitStop ==
  /\ now = 0
  /\ nodes = CombNodes
  /\ drivers = <<>>
  /\ comps \in {<<first>> \o StaggerComps : first \in StopChoices}
  /\ uid = 1
  /\ entry = Call("new", 0, 0, 0)
  /\ ev = <<>>
  /\ err = FALSE
  /\ calls = <<<<>>, <<>>>>
  /\ mapper = event(0, FALSE, 0, FALSE)

NextStop ==
  \/ Call_start(7, 1, 0)
  \/ \E c \in Comps : Call_stop(c)
  \/ Call_setValue(1, Unit)
  \/ \E d \in Drivers : Tick(d)
  \/ \E d \in Drivers : Timeout(d)
  \/ Pass(CombStep)

SpecStop == InitStop /\ [][NextStop]_vars

\* C12: stop() raises no error, whether start() was called or not; a stop()
\* that follows the same stop() with nothing in between changes no node (no
\* Value, driver slot or tracking binding), no driver, and calls no callback.
C12_StopIdempotent ==
  [][entry'.op = "stop" =>
       /\ ~err'
       /\ entry = entry' =>
            /\ nodes' = nodes
            /\ drivers' = drivers
            /\ calls' = calls
            /\ CountEv(ev', "end") = 0 /\ CountEv(ev', "callback") = 0]_vars

\* the tracking spring was stopped again: its tracking node, detached by the
\* stop() before, was not found among the children of a
C12_Witness ==
  /\ entry.op = "stop" /\ entry.a = 1
  /\ comps[1].started /\ comps[1].tracking # 0
  /\ nodes[2].tracking = 3 /\ ~nodes[3].active
  /\ ev = <<Ev("stop", 1, 0, FALSE), Ev("detach", 3, 0, FALSE), Ev("warn", 1, 3, FALSE)>>

-----------------------------------------------------------------------------
(* animate() and setValue() on a Value that has a driver *)

\* the drivers that the handler constructed and started on a Value that had
\* an active driver
Replacing == {d \in DOMAIN drivers' \ DOMAIN drivers : drivers'[d].previous # 0}

\* how often the handler called the callback cb: a callback of the user, or
\* the closure that a sequence or a parallel handed to its element cb.i
CallsOf(cb) ==
  CASE cb.k = "user" ->
         Cardinality({i \in DOMAIN ev' : ev'[i].t = "callback" /\ ev'[i].n = cb.c})
    [] cb.k \in {"seq", "par"} ->
         Len(SelectSeq(comps'[cb.c].reports, LAMBDA r : r.e = cb.i))
           - Len(SelectSeq(comps[cb.c].reports, LAMBDA r : r.e = cb.i))
    [] OTHER -> 0

\* what value.animate(d, cb) did, for a driver d of Replacing: the previous
\* driver was stopped and ended with false; the handler called cb as often as
\* d itself ended; d is in the slot unless it has ended; d.start received the
\* stored value and the previous driver
AnimateReplaces(d) ==
  LET a == drivers'[d]
      p == a.previous
  IN  /\ p \in DOMAIN drivers /\ drivers[p].val = a.val
      /\ drivers'[p].stopped /\ drivers'[p].ends = <<FALSE>>
      /\ \E i \in DOMAIN ev' : ev'[i] = Ev("end", p, 0, FALSE)
      /\ CallsOf(a.cb) = Cardinality({i \in DOMAIN ev' : ev'[i].t = "end" /\ ev'[i].n = d})
      /\ nodes'[a.val].animation = d \/ a.ends # <<>>
      /\ a.from = nodes[a.val].value

\* C13 as stated: animate(new, cb) on a Value with an active driver old stops
\* old, whose callback receives false; cb is not called for that; new is in
\* the slot when animate returns unless it has completed; new.start receives
\* the stored value and old.
C13_AnimateReplaces == [][\A d \in Replacing : AnimateReplaces(d)]_vars

\* it holds where start() of a second composite replaces the driver of a first
C13_Composites == [][comps[1].config.toNode = 0 => \A d \in Replacing : AnimateReplaces(d)]_vars

\* C14: setValue(x) on a Value whose slot holds the driver d stops d, whose
\* callback is called with false before the value changes; when it returns
\* the slot is empty, the stored value is x, and no driver started on the
\* Value before has a frame or a timer pending.
C14_SetValueStops ==
  [][(entry'.op = "setValue" /\ nodes[entry'.a].animation # 0) =>
       LET v == entry'.a
           d == nodes[v].animation
       IN  /\ drivers'[d].stopped /\ drivers'[d].ends = <<FALSE>>
           /\ Len(ev') >= 2
           /\ ev'[1] = Ev("Animation_stop", d, 0, FALSE)
           /\ ev'[2] = Ev("end", d, 0, FALSE)
           /\ drivers[d].cb.k = "user" =>
                Len(ev') >= 3 /\ ev'[3] = Ev("callback", drivers[d].cb.c, 0, FALSE)
           /\ nodes'[v].animation = 0
           /\ nodes'[v].value = entry'.b
           /\ \A k \in DOMAIN drivers :
                drivers'[k].val = v => ~drivers'[k].frame /\ ~drivers'[k].timeout]_vars

\* setValue(0) while the timing was running, 500 ms after its start: the
\* callback received false, then the Props node and the listener saw 0
C14_Witness ==
  /\ entry.op = "setValue" /\ entry.a = 1 /\ entry.b = 0
  /\ now = 500
  /\ Len(drivers) = 1 /\ drivers[1].ends = <<FALSE>> /\ ~drivers[1].frame
  /\ calls[1] = <<FALSE>>
  /\ nodes[1].animation = 0 /\ nodes[1].value = 0
  /\ Len(ev) >= 6
  /\ ev[3] = Ev("callback", 1, 0, FALSE)
  /\ ev[4].t = "flush" /\ ev[5].t = "update" /\ ev[6].t = "listener"

-----------------------------------------------------------------------------
(* Two components that read the Value a, one through a style: the commit    *)
(* callback of the first re-renders its component, which unmounts the       *)
(* second.  A timing animates a.                                            *)

PropsNodes ==
  <<ValueNode(0),                                           \* 1: a
    Node("Style", <<1>>),                                   \* 2: {left: a}
    [Unmade("Props", <<2>>) EXCEPT !.unmounts = 4],         \* 3: {style: 2}
    Unmade("Props", <<1>>)>>                                \* 4: {x: a}

InitProps ==
  /\ now = 0
  /\ nodes = PropsNodes
  /\ drivers = <<>>
  /\ comps = <<timing(1, [Config EXCEPT !.toValue = 2 * Unit, !.duration = 1000])>>
  /\ uid = 1
  /\ entry = Call("new", 0, 0, 0)
  /\ ev = <<>>
  /\ err = FALSE
  /\ calls = <<<<>>>>
  /\ mapper = event(0, FALSE, 0, FALSE)

NextProps ==
  \/ \E n \in Nodes : Call_newProps(n)
  \/ \E n \in Nodes : Call_detach(n)
  \/ \E value \in ValueValues : Call_setValue(1, value)
  \/ Call_start(1, 1, 0)
  \/ Call_stop(1)
  \/ \E d \in Drivers : Tick(d)
  \/ Pass(ValueStep)

SpecProps == InitProps /\ [][NextProps]_vars

\* C15 as stated: whenever update() of a Props node calls the commit
\* callback, the node is in the child list of each of its dependencies, and
\* detach() has not been called on it, earlier in the same flush included.
C15_CommitWhileAttached ==
  \A i \in DOMAIN ev :
    (ev[i].t = "update" /\ nodes[ev[i].n].kind = "Props") =>
      /\ ~ev[i].f
      /\ \A j \in 1..(i - 1) : ~(ev[j].t = "detach" /\ ev[j].n = ev[i].n)

\* what holds: the callback is not called before the constructor has
\* registered the node, nor in a flush that starts after detach()
C15_CollectedWhileAttached ==
  \A i \in DOMAIN ev :
    (ev[i].t = "update" /\ nodes[ev[i].n].kind = "Props") =>
      /\ nodes[ev[i].n].made
      /\ ev[i].f => \E j \in 1..(i - 1) : ev[j].t = "detach" /\ ev[j].n = ev[i].n

-----------------------------------------------------------------------------
(* Two Values b and c that track the Value a, their springs run in          *)
(* parallel: a change of a re-targets both, and the stop of one stops the   *)
(* other.                                                                    *)

\* update() called on the tracking node n from outside a flush
Call_update(n) ==
  /\ nodes[n].kind = "Tracking" /\ nodes[n].made
  /\ Done(Handle(Call("update", n, 0, 0)))

InitTrack ==
  /\ now = 0
  /\ nodes = <<ValueNode(0),                \* 1: a
               ValueNode(0),                \* 2: b
               Unmade("Tracking", <<1>>),   \* 3: made by spring(b, {toValue: a})
               ValueNode(0),                \* 4: c
               Unmade("Tracking", <<1>>)>>  \* 5: made by spring(c, {toValue: a})
  /\ drivers = <<>>
  /\ comps = <<TrackingSpring,
               [TrackingSpring EXCEPT !.value = 4, !.tracking = 5],
               parallel(<<1, 2>>)>>
  /\ uid = 1
  /\ entry = Call("new", 0, 0, 0)
  /\ ev = <<>>
  /\ err = FALSE
  /\ calls = <<<<>>>>
  /\ mapper = event(0, FALSE, 0, FALSE)

NextTrack ==
  \/ Call_start(3, 1, 0)
  \/ Call_stop(3)
  \/ \E value \in CombValues : Call_setValue(1, value)
  \/ \E n \in Nodes : Call_update(n)
  \/ \E d \in Drivers : Tick(d)
  \/ Pass(CombStep)

SpecTrack == InitTrack /\ [][NextTrack]_vars

\* what one update() of the tracking node n did, called from outside a flush
TrackingUpdates(n) ==
  LET owner == nodes[n].owner
      d == Len(drivers) + 1
  IN  IF ~nodes[n].active
      THEN /\ ev' = <<Ev("update", n, 0, TRUE), Ev("warn", n, 0, FALSE)>>
           /\ ~err'
           /\ nodes' = nodes /\ drivers' = drivers /\ comps' = comps /\ calls' = calls
      ELSE /\ ev'[1] = Ev("update", n, 0, FALSE)
           /\ ~err'
           /\ Len(drivers') = d
           /\ drivers'[d].kind = "spring" /\ drivers'[d].val = owner
           /\ drivers'[d].toValue = getValue(State, nodes[n].deps[1])
           /\ drivers'[d].previous = nodes[owner].animation
           /\ nodes'[owner].animation = d \/ drivers'[d].ends # <<>>

\* C16: update() of a detached tracking node warns, raises no error and
\* changes no node and no driver; update() of an attached one constructs a
\* spring whose toValue is the value of the target at that moment and starts
\* it on the owned Value.  In a flush too, the update() of a tracking node
\* warns exactly if the node is detached.
C16_TrackingUpdate ==
  [][/\ entry'.op = "update" => TrackingUpdates(entry'.a)
     /\ \A i \in DOMAIN ev' :
          (ev'[i].t = "update" /\ nodes'[ev'[i].n].kind = "Tracking") =>
            (ev'[i].f <=> (i < Len(ev') /\ ev'[i + 1] = Ev("warn", ev'[i].n, 0, FALSE)))]_vars

\* a changed while b and c were following it: the re-targeting of b stopped
\* the parallel, which detached the tracking node of c before its update()
C16_Witness ==
  /\ entry.op = "setValue" /\ entry.a = 1
  /\ \E i \in DOMAIN ev :
       /\ ev[i].t = "update" /\ ev[i].n = 5 /\ ev[i].f
       /\ \E j \in 1..(i - 1) : ev[j] = Ev("update", 3, ev[i].x, FALSE)
  /\ CountEv(ev, "warn") = 1
  /\ ~nodes[5].active

-----------------------------------------------------------------------------
(* Springs *)

\* the spring d, constructed and started by the handler, took the place of
\* the spring p that was in flight
Handover(d, p) ==
  /\ d \in Replacing
  /\ p = drivers'[d].previous
  /\ drivers'[d].kind = "spring" /\ drivers[p].kind = "spring"

\* C17: a spring started on a Value whose driver is a spring in flight starts
\* from the position, the velocity and the time of the last tick of that
\* spring: its first onUpdate() integrates from them over the time since
\* that tick, toward its own toValue, and emits the position it arrives at.
C17_SpringHandover ==
  [][\A d \in DOMAIN drivers', p \in DOMAIN drivers :
       Handover(d, p) =>
         LET from == <<drivers[p].lastPosition, drivers[p].lastVelocity,
                       drivers[p].lastPosition, drivers[p].lastVelocity>>
             q == rk4(drivers'[d], from, (now - drivers[p].lastTime) \div TIMESTEP_MSEC)
         IN  /\ \E i \in DOMAIN ev' : ev'[i] = Ev("emit", d, q[1], FALSE)
             /\ drivers'[d].lastPosition = q[1]
             /\ drivers'[d].lastVelocity = q[2]
             /\ drivers'[d].lastTime = now]_vars

\* the second spring was started 500 ms after the last tick of the first,
\* which was moving: it emitted a position further on, not the stored value
C17_Witness ==
  /\ entry.op = "start"
  /\ Len(drivers) = 2
  /\ drivers[1].kind = "spring" /\ drivers[2].kind = "spring"
  /\ drivers[2].previous = 1
  /\ drivers[1].lastVelocity > 0
  /\ drivers[1].lastTime = now - DriverStep
  /\ drivers[2].from = drivers[1].lastPosition
  /\ drivers[2].lastPosition > drivers[2].from
  /\ ev[Len(ev)] = Ev("emit", 2, drivers[2].lastPosition, FALSE) \/ drivers[2].ends # <<>>

\* One Value and two springs configured with tension 0 and friction 10, to a
\* target 10 away, from rest or with velocity 5
InitSpring ==
  /\ now = 0
  /\ nodes = <<ValueNode(0)>>
  /\ drivers = <<>>
  /\ \E velocity \in {Undef, 5 * Unit} :
       LET config == [Config EXCEPT !.toValue = 10 * Unit, !.tension = 0, !.friction = 10,
                                    !.velocity = velocity,
                                    !.restDisplacementThreshold = Unit \div 10,
                                    !.restSpeedThreshold = Unit \div 2]
       IN  comps = <<spring(1, config, 0), spring(1, config, 0)>>
  /\ uid = 1
  /\ entry = Call("new", 0, 0, 0)
  /\ ev = <<>>
  /\ err = FALSE
  /\ calls = <<<<>>, <<>>>>
  /\ mapper = event(0, FALSE, 0, FALSE)

NextSpring ==
  \/ \E c \in Comps : Call_start(c, c, 0)
  \/ \E c \in Comps : Call_stop(c)
  \/ Call_setValue(1, 0)
  \/ \E d \in Drivers : Tick(d)
  \/ Pass(DriverStep)

SpecSpring == InitSpring /\ [][NextSpring]_vars

\* onUpdate() of the driver d ran in the last handler
Ticked(d) == \E i \in DOMAIN ev : ev[i].t = "emit" /\ ev[i].n = d

\* C18 as stated: a spring configured with tension 0 completes, with true, at
\* the first tick at which its speed is at most restSpeedThreshold, however
\* far its position is from toValue.
C18_TensionZero ==
  \A d \in Drivers :
    (/\ drivers[d].kind = "spring"
     /\ comps[drivers[d].cb.c].config.tension = 0
     /\ Ticked(d)
     /\ Abs(drivers[d].lastVelocity) <= drivers[d].restSpeedThreshold)
      => drivers[d].ends = <<TRUE>>

\* what the code does: the tension it tests is the converted one, which is
\* not 0, and a tick completes the spring exactly if speed and displacement
\* are both within their thresholds
C18_Converted ==
  \A d \in Drivers :
    (drivers[d].kind = "spring" /\ Ticked(d)) =>
      /\ drivers[d].tension = tensionFromOrigamiValue(0) /\ drivers[d].tension # 0
      /\ drivers[d].ends = <<TRUE>> <=>
           /\ Abs(drivers[d].lastVelocity) <= drivers[d].restSpeedThreshold
           /\ Abs(drivers[d].toValue - drivers[d].lastPosition)
                <= drivers[d].restDisplacementThreshold
-----------------------------------------------------------------------------
(* The event mapper: event([{nativeEvent: {x: a}}], config) with a listener, *)
(* with or without an update period of 500 ms and with or without a ref.     *)
(* The program has run for a second when the first event comes in.           *)

\* the host, or the user, calls the handler with an event
Call_event(nativeEvent, x) ==
  /\ mapper.count < MaxEvents
  /\ Done(Handle(Call("event_handler", nativeEvent, x, 0)))

\* a timer set by the handler expires
TimerFires(t) ==
  /\ t \in mapper.timers
  /\ now >= t.due
  /\ Done(Handle(Call("event_timer", t.id, t.due, 0)))

\* enable() or disable() of the object config.ref received
Call_ref(enabled) ==
  /\ mapper.ref
  /\ Done(Handle(CallCb("event_ref", 0, 0, 0, NoCb, enabled)))

InitEvent ==
  /\ now = 1000
  /\ nodes = <<ValueNode(0)>>
  /\ drivers = <<>>
  /\ comps = <<>>
  /\ uid = 1
  /\ entry = Call("new", 0, 0, 0)
  /\ ev = <<>>
  /\ err = FALSE
  /\ calls = <<>>
  /\ mapper \in {event(1, TRUE, updatePeriod, ref) : updatePeriod \in {0, 500}, ref \in BOOLEAN}

NextEvent ==
  \/ \E x \in {Unit, 2 * Unit, Undef} : Call_event(0, x)
  \/ Call_event(Undef, Undef)
  \/ \E t \in mapper.timers : TimerFires(t)
  \/ \E enabled \in BOOLEAN : Call_ref(enabled)
  \/ Pass(250)

SpecEvent == InitEvent /\ [][NextEvent]_vars

\* the deliveries of the listener in the last handler
Deliveries == SelectSeq(ev, LAMBDA e : e.t = "deliver")

\* C19: with a listener and an update period P, while the mapper is enabled, a
\* delivery comes no sooner than P after the one before, never more than one
\* timer is pending, the events that come in while a timer is pending set no
\* other, and the delivery carries the arguments of the latest event; with no
\* period every event that is mapped is delivered once, before the handler
\* returns.
C19_Listener ==
  [][/\ Cardinality(mapper'.timers) <= 1
     /\ mapper.updatePeriod # 0 =>
          /\ Len(Deliveries') <= 1
          /\ Deliveries' # <<>> =>
               /\ entry'.op = "event_timer"
               /\ mapper.lastUpdate # 0 => now' - mapper.lastUpdate >= mapper.updatePeriod
               /\ Deliveries'[1].n = mapper.count
               /\ mapper'.timers = {}
          /\ (entry'.op = "event_handler" /\ mapper.timers # {} /\ mapper.isEnabled) =>
               mapper'.timers = mapper.timers
     /\ (mapper.updatePeriod = 0 /\ entry'.op = "event_handler") =>
          IF mapper.isEnabled /\ ~err'
          THEN Len(Deliveries') = 1 /\ Deliveries'[1].n = mapper'.count
          ELSE Deliveries' = <<>>]_vars

\* the fourth event is delivered by the second delivery, half a second after
\* the first: the events between the two set one timer
C19_Witness ==
  /\ entry.op = "event_timer"
  /\ mapper.updatePeriod # 0
  /\ Deliveries # <<>> /\ Deliveries[1].n = 4
  /\ mapper.delivered = 2
  /\ mapper.lastUpdate = 1500
  /\ nodes[1].value = 2 * Unit

\* the handler just entered was given an event the mapping accepts
Accepted == entry'.op = "event_handler" /\ entry'.a # Undef /\ entry'.b # Undef

\* C20: while the mapper is enabled, an event with a number n at nativeEvent.x
\* sets the Value to n; an event with something else there, or without
\* nativeEvent, fails, and the listener is never called with the arguments of
\* an event that failed.
C20_TypeMismatch ==
  [][/\ (Accepted /\ mapper.isEnabled) => ~err' /\ nodes'[1].value = entry'.b
     /\ (entry'.op = "event_handler" /\ ~Accepted /\ mapper.isEnabled) =>
          err' /\ nodes' = nodes /\ Deliveries' = <<>>
     /\ \A i \in DOMAIN Deliveries' : ~Deliveries'[i].f]_vars

\* the same, for the handler the event comes in by: an event that fails is
\* not delivered before the handler returns, and sets no timer
C20_Handler ==
  [][/\ (Accepted /\ mapper.isEnabled) => ~err' /\ nodes'[1].value = entry'.b
     /\ (entry'.op = "event_handler" /\ ~Accepted /\ mapper.isEnabled) =>
          err' /\ nodes' = nodes /\ Deliveries' = <<>> /\ mapper'.timers = mapper.timers]_vars

\* an event that failed while a timer was pending is what the listener gets
C20_Delivered ==
  /\ entry.op = "event_timer"
  /\ Deliveries # <<>> /\ Deliveries[1].f
  /\ nodes[1].value = Unit
-----------------------------------------------------------------------------
(* A chain of interpolations: a.interpolate(c1).interpolate(c2), read by two *)
(* consumers, while a timing animation runs on a.                            *)

InitChain ==
  /\ now = 0
  /\ nodes = <<ValueNode(0),                   \* 1: a
               Node("Interpolation", <<1>>),    \* 2: inner = a.interpolate(c1)
               Node("Interpolation", <<2>>),    \* 3: outer = inner.interpolate(c2)
               Unmade("Props", <<3>>),          \* 4: {x: outer}
               Unmade("Props", <<3>>)>>         \* 5: {y: outer}
  /\ drivers = <<>>
  /\ comps = ValueComps
  /\ uid = 1
  /\ entry = Call("new", 0, 0, 0)
  /\ ev = <<>>
  /\ err = FALSE
  /\ calls = <<<<>>>>
  /\ mapper = event(0, FALSE, 0, FALSE)

NextChain ==
  \/ \E n \in Nodes : Call_newProps(n)
  \/ \E n \in Nodes : Call_detach(n)
  \/ \E value \in ValueValues : Call_setValue(1, value)
  \/ Call_start(1, 1, 0)
  \/ \E d \in Drivers : Tick(d)
  \/ Pass(ValueStep)

SpecChain == InitChain /\ [][NextChain]_vars

\* in the nodes nd, the child list of node n is <<m>> while the consumers hold the chain, and
\* empty while they do not
Linked(nd, n, m, held) == nd[n].children = IF held THEN <<m>> ELSE <<>>

\* C21: in the chain a -> inner -> outer, while a consumer is attached to
\* outer, outer is the child of inner and inner the child of a; once the last
\* consumer has detached all three child lists are empty, and a change of a
\* made while they are empty calls update() on no node.
C21_Chain ==
  [][/\ LET held == nodes'[3].children # <<>>
        IN  /\ Linked(nodes', 2, 3, held) /\ Linked(nodes', 1, 2, held)
            /\ \A p \in {4, 5} :
                 (entry'.op = "AnimatedProps" /\ entry'.a = p) => IndexOf(nodes'[3].children, p) # 0
            /\ (entry'.op = "detach" /\ \A p \in {4, 5} : p = entry'.a \/ IndexOf(nodes[3].children, p) = 0)
                 => ~held
     /\ nodes[1].children = <<>> => CountEv(ev', "update") = 0]_vars

\* both consumers were attached and have detached; then a changed
C21_Witness ==
  /\ entry.op = "setValue"
  /\ CountEv(ev, "flush") = 1 /\ CountEv(ev, "update") = 0
  /\ nodes[4].made /\ nodes[5].made
  /\ \A n \in 1..3 : nodes[n].children = <<>>

-----------------------------------------------------------------------------
(* Child lists hold one entry per reference *)

\* how many entries of seq are x
Occurrences(seq, x) == Cardinality({i \in DOMAIN seq : seq[i] = x})

\* C22: no node is twice in the child list of another (the lists that a direct
\* addChild of the host extends are left out).
C22_NoDuplicates ==
  \A n, m \in Nodes :
    <<n, m>> \notin GraphEdges => Occurrences(getChildren(State, n), m) <= 1

\* a node is in the child list of another at most once for each key or entry
\* under which it reads that node
C22_PerReference ==
  \A n, m \in Nodes :
    <<n, m>> \notin GraphEdges =>
      Occurrences(getChildren(State, n), m) <= Occurrences(nodes[m].deps, n)
-----------------------------------------------------------------------------
(* Callbacks that call back into the library: the commit callback of the    *)
(* component that reads a calls a.stopAnimation(), and the callback given   *)
(* to start() of the first composite starts the second when it is told      *)
(* finished = false.  Both composites animate a.                            *)

InitReentry ==
  /\ now = 0
  /\ nodes = <<ValueNode(0),                                   \* 1: a
               [Unmade("Props", <<1>>) EXCEPT !.stops = 1]>>    \* 2: {x: a}
  /\ drivers = <<>>
  /\ comps \in {<<first>> \o ValueComps : first \in DriverChoices}
  /\ uid = 1
  /\ entry = Call("new", 0, 0, 0)
  /\ ev = <<>>
  /\ err = FALSE
  /\ calls = <<<<>>, <<>>>>
  /\ mapper = event(0, FALSE, 0, FALSE)

NextReentry ==
  \/ Call_newProps(2)
  \/ Call_start(1, 1, 2)
  \/ \E c \in Comps : Call_stop(c)
  \/ Call_setValue(1, Unit)
  \/ \E d \in Drivers : Tick(d)
  \/ \E d \in Drivers : Timeout(d)
  \/ Pass(DriverStep)

SpecReentry == InitReentry /\ [][NextReentry]_vars

\* the driver d called its update callback in the handler that has just run
Updates(d) == \E i \in DOMAIN ev' : ev'[i].t = "emit" /\ ev'[i].n = d

\* once stop() has been called on the driver d, it has neither a frame nor a
\* timer pending, and it calls its update callback no more
StaysStopped(d) ==
  drivers'[d].stopped =>
    /\ ~drivers'[d].frame /\ ~drivers'[d].timeout
    /\ (d \in DOMAIN drivers /\ drivers[d].stopped) => ~Updates(d)

\* C23: a driver on which stop() has been called has no frame and no timer
\* pending and never calls its update callback again, whether stop() was
\* called by the user or from a callback that the driver's own tick called.
C23_StaysStopped == [][\A d \in DOMAIN drivers' : StaysStopped(d)]_vars

\* a stop() of the driver d that no update callback of d has called leaves it
\* with neither a frame nor a timer, and d calls its update callback no more
\* unless a stop() from its own tick has left it a frame
C23_Outside ==
  [][\A d \in DOMAIN drivers' :
       /\ \A i \in DOMAIN ev' :
            (/\ ev'[i].t = "Animation_stop" /\ ev'[i].n = d
             /\ \A j \in 1..(i - 1) : ~(ev'[j].t = "emit" /\ ev'[j].n = d))
              => ~drivers'[d].frame /\ ~drivers'[d].timeout
       /\ (d \in DOMAIN drivers /\ drivers[d].stopped /\ ~drivers[d].frame)
            => ~Updates(d) /\ ~drivers'[d].frame /\ ~drivers'[d].timeout]_vars

\* a decay or a timing whose tick stopped it ticks again, and moves the Value
C23_Reentered ==
  /\ entry.op = "Frame"
  /\ drivers[entry.a].stopped
  /\ \E i \in DOMAIN ev : ev[i].t = "emit" /\ ev[i].n = entry.a /\ ev[i].x = nodes[1].value
-----------------------------------------------------------------------------
(* A component that reads a and receives new props twice, then unmounts,     *)
(* while a timing animates a.                                                *)

\* componentWillReceiveProps: the component whose Props node is old gets the
\* Props node next
Call_attachProps(old, next) ==
  /\ nodes[old].kind = "Props" /\ nodes[old].made /\ Registered(State, old)
  /\ nodes[next].kind = "Props" /\ ~nodes[next].made
  /\ Done(Handle(Call("attachProps", old, next, 0)))

InitRemount ==
  /\ now = 0
  /\ nodes = <<ValueNode(0),               \* 1: a
               Unmade("Props", <<1>>),      \* 2: {x: a}, the props at mount
               Unmade("Props", <<1>>),      \* 3: {x: a}, the next props
               Unmade("Props", <<1>>)>>     \* 4: {x: a}, the props after those
  /\ drivers = <<>>
  /\ comps = ValueComps
  /\ uid = 1
  /\ entry = Call("new", 0, 0, 0)
  /\ ev = <<>>
  /\ err = FALSE
  /\ calls = <<<<>>>>
  /\ mapper = event(0, FALSE, 0, FALSE)

NextRemount ==
  \/ Call_newProps(2)
  \/ \E n \in {2, 3} : Call_attachProps(n, n + 1)
  \/ \E n \in Nodes : Registered(State, n) /\ Call_detach(n)
  \/ \E value \in ValueValues : Call_setValue(1, value)
  \/ Call_start(1, 1, 0)
  \/ \E d \in Drivers : Tick(d)
  \/ Pass(ValueStep)

SpecRemount == InitRemount /\ [][NextRemount]_vars

\* the lengths the child list of a had after each removal of the handler that
\* has just run
Removals == {ev'[i].x : i \in {j \in DOMAIN ev' : ev'[j].t = "splice" /\ ev'[j].n = 1}}

\* C24: when new props replace the old ones, the new Props node is registered
\* before the old one is removed: the child list of a is never empty,
\* a.detach() is not called and the driver in the slot of a is left as it is.
\* When the removal of a Props node empties the list, the driver in the slot
\* is stopped and its callback told finished = false.
C24_Replace ==
  [][LET d == nodes[1].animation
     IN  /\ entry'.op = "attachProps" =>
              /\ Removals = {1}
              /\ \A i \in DOMAIN ev' : ev'[i].t \notin {"detach", "Animation_stop", "end"} \/ ev'[i].n # 1
              /\ nodes'[1].animation = d /\ drivers' = drivers /\ calls' = calls
         /\ (0 \in Removals /\ d # 0) =>
              /\ nodes'[1].animation = 0
              /\ drivers'[d].ends = <<FALSE>>
              /\ ~drivers'[d].frame /\ ~drivers'[d].timeout
              /\ calls'[1] = Append(calls[1], FALSE)]_vars

\* the props were replaced while the timing was half way, and it runs on
C24_Witness ==
  /\ entry.op = "attachProps" /\ entry.a = 3
  /\ nodes[1].children = <<4>>
  /\ nodes[1].animation # 0 /\ drivers[1].frame /\ drivers[1].ends = <<>>
  /\ nodes[1].value = Unit
-----------------------------------------------------------------------------
(* The driver slot of a Value *)

\* the drivers that were started and have not reported their end
Running == {d \in Drivers : drivers[d].onEnd}

\* C25: every driver that was started on a Value and has not reported its
\* end is the one in the driver slot of that Value, so that there is at most
\* one of them for each Value.
C25_OneDriver == \A d \in Running : nodes[drivers[d].val].animation = d

\* the driver in the slot of a Value was started on it and has not reported
\* its end
C25_SlotRuns ==
  \A v \in Nodes :
    nodes[v].animation # 0 =>
      nodes[v].animation \in Running /\ drivers[nodes[v].animation].val = v
-----------------------------------------------------------------------------
(* A Value b that tracks a Value a while a timing animates a; a component    *)
(* may read a as well.                                                       *)

InitSource ==
  /\ now = 0
  /\ nodes = <<ValueNode(0),                \* 1: a
               ValueNode(0),                \* 2: b
               Unmade("Tracking", <<1>>),   \* 3: made by spring(b, {toValue: a})
               Unmade("Props", <<1>>)>>     \* 4: {x: a}
  /\ drivers = <<>>
  /\ comps = ValueComps \o <<TrackingSpring>>
  /\ uid = 1
  /\ entry = Call("new", 0, 0, 0)
  /\ ev = <<>>
  /\ err = FALSE
  /\ calls = <<<<>>, <<>>>>
  /\ mapper = event(0, FALSE, 0, FALSE)

NextSource ==
  \/ \E c \in Comps : Call_start(c, c, 0)
  \/ Call_stop(2)
  \/ Call_newProps(4)
  \/ \E d \in Drivers : Tick(d)
  \/ Pass(ValueStep)

SpecSource == InitSource /\ [][NextSource]_vars

\* the handler that has just run left a, its slot, its drivers and the
\* callback of its animation as they were
SourceUntouched ==
  /\ nodes'[1].animation = nodes[1].animation
  /\ nodes'[1].value = nodes[1].value
  /\ \A d \in Drivers : drivers[d].val = 1 => drivers'[d] = drivers[d]
  /\ calls'[1] = calls[1]

\* C26: stop() of the spring by which b tracks a leaves a driver on a as it
\* is, also when the tracking node is the only child of a.
C26_SourceUntouched == [][(entry'.op = "stop" /\ entry'.a = 2) => SourceUntouched]_vars

\* the same while the tracking node is not the only child of a
C26_OtherChild ==
  [][(entry'.op = "stop" /\ entry'.a = 2 /\ nodes'[1].children # <<>>) => SourceUntouched]_vars

\* C27: the callback given to start() of a timing, a decay or a spring is
\* called at most once, also that of a spring whose toValue is a node that
\* changes.
C27_CallbackOnce == \A c \in Comps : Len(calls[c]) <= 1

\* the same for the timings, the decays and the springs to a number
C27_Numbers == \A c \in Comps : comps[c].config.toNode = 0 => Len(calls[c]) <= 1

-----------------------------------------------------------------------------
(* stop() of a composite and the drivers of the others *)

\* stop() of the composite c was called, and c had not been started, or had
\* called its callback already
StoppedIdle(c) ==
  /\ entry'.op = "stop" /\ entry'.a = c
  /\ ~comps[c].started \/ calls[c] # <<>>

\* C28: stop() of a timing, a decay or a spring that was never started, or
\* that has completed, leaves the drivers that another composite started as
\* they are (the driver d was started by the composite whose callback it has).
C28_StopOwn ==
  [][\A c \in Comps : StoppedIdle(c) =>
       \A d \in Drivers : drivers[d].cb.c # c => drivers'[d] = drivers[d]]_vars

\* stop() of a timing, a decay or a spring changes no driver but the one in
\* the slot of its Value, whoever started it
C28_SlotOnly ==
  [][\A c \in Comps :
       (entry'.op = "stop" /\ entry'.a = c) =>
         \A d \in Drivers : d # nodes[comps[c].value].animation => drivers'[d] = drivers[d]]_vars

====
